---- MODULE Spec2Model ----
(***************************************************************************)
(* A model of the YesDB storage engine: the pager (chidb/pager.py), the    *)
(* record codec (chidb/record.py), the B-tree (chidb/btree.py), the        *)
(* virtual machine (chidb/dbm.py), the code generator                      *)
(* (chidb/sql/codegen.py) and the controller (chidb/api.py).               *)
(*                                                                         *)
(* A page is modelled by its parsed content: the node header, the cell     *)
(* pointer array (the order of `cells`), and for every live cell its       *)
(* offset in the page and its content.  A record payload is the sequence   *)
(* of its encoded bytes, where the body of a TEXT value is kept as one     *)
(* chunk of `len` bytes instead of `len` single bytes.                     *)
(***************************************************************************)
EXTENDS Integers, Sequences, FiniteSets, TLC

VARIABLES
    pager,            \* Pager: num_pages, page cache, dirty set, and the file
    bt_root,          \* BTree.root_page of the tree under test (SpecBT)
    hist,             \* history: key -> << >> or <<values last inserted>>
    status,           \* "ok", or the exception the last operation raised
    ops,              \* calls made so far: inserts, UPDATE/DELETEs, opens
    tables,           \* YesDB.tables: name -> root page (0: no such table)
    table_metadata,   \* YesDB.table_metadata, in insertion order
    catalog_root,     \* YesDB.catalog_btree.root_page
    next_auto_key,    \* CodeGenerator.next_auto_key
    db_open,          \* the handle is open
    result_rows,      \* DatabaseMachine.result_rows
    expect,           \* history of every table (see NoExpect)
    last,             \* the statement or call executed last
    rec,              \* the record (SpecRec) or integer (SpecVarint) under test
    written,          \* page id -> << >> or <<data of the last write_page,
                      \*   number of the open it was made in>>
    vm,               \* the DatabaseMachine under test and its program (SpecVM)
    srv               \* the server: its pool of handles and its requests

vars == <<pager, bt_root, hist, status, ops,
          tables, table_metadata, catalog_root, next_auto_key, db_open,
          result_rows, expect, last, rec, written, vm, srv>>

(* the variables of the specifications of single components *)
others == <<rec, written, vm, srv>>

(***************************************************************************)
(* Bounds of the model.                                                    *)
(***************************************************************************)
MaxPages == 5        \* pages the file may grow to (page ids 0..MaxPages-1)
MaxKey == 6          \* keys are drawn from 1..MaxKey
MaxOps == 6          \* modifying calls (insert, delete) of one behaviour
TextLen == 1000      \* byte length of the TEXT value of a table row
NameLen == 1500      \* byte length of a table name
MaxTables == 2       \* table names are 1..MaxTables
MaxShort == 2        \* table names of ShortNameLen bytes
ShortNameLen == 1    \* byte length of a short table name
MaxRowsDB == 3       \* ids the SQL statements name are 1..MaxRowsDB
MaxPagesDB == 8      \* pages the database file may grow to
MaxInserts == 5      \* INSERT statements of one behaviour
MaxMods == 1         \* UPDATE and DELETE statements of one behaviour
MaxOpens == 2        \* times the file is opened in one behaviour

(***************************************************************************)
(* Program constants.                                                      *)
(***************************************************************************)
DEFAULT_PAGE_SIZE == 4096
DB_HEADER_SIZE == 100
NODE_HEADER_SIZE == 7
MAX_NODE_KEYS == 100
SYSTEM_CATALOG_PAGE == 1

(* Page ids of the cache: an operation that would grow the file beyond    *)
(* its bound is computed and then not taken.                               *)
PageIds == 0..(MaxPagesDB + 6)
Keys == 1..MaxKey
Names == 1..MaxTables
ShortNames == (MaxTables + 1)..(MaxTables + MaxShort)
TableNames == Names \cup ShortNames
NoRow == <<>>

(***************************************************************************)
(* The value of an expression that is computed once and used several      *)
(* times is bound by  The({ body : x \in {value} }).                       *)
(***************************************************************************)
The(S) == CHOOSE y \in S : TRUE

(***************************************************************************)
(* chidb/util.py : varints                                                 *)
(***************************************************************************)
RECURSIVE pack_varint(_)
pack_varint(value) ==
    IF value >= 128
    THEN <<(value % 128) + 128>> \o pack_varint(value \div 128)
    ELSE <<value % 128>>

RECURSIVE Pow128(_)
Pow128(n) == IF n = 0 THEN 1 ELSE 128 * Pow128(n - 1)

(* A payload is a sequence of items; an item is one byte or one chunk of   *)
(* text bytes.                                                             *)
NoMeta == <<>>
NoText == [tok |-> 0, len |-> 0, meta |-> NoMeta]
ByteItem(b) == [k |-> "b", v |-> b, n |-> 1, t |-> NoText]
ChunkItem(s) == [k |-> "s", v |-> 0, n |-> s.len, t |-> s]
Bytes(bs) == [i \in 1..Len(bs) |-> ByteItem(bs[i])]

(* value |= (byte & 0x7F) << shift, where shift counts groups of seven     *)
(* bits.  Python integers are unbounded; every value of 2^31 and more is   *)
(* represented by 2^31 - 1.                                                *)
varint_or(value, byte, shift) ==
    IF byte % 128 = 0 THEN value
    ELSE IF shift > 4 \/ (shift = 4 /\ byte % 128 > 7) THEN 2147483647
    ELSE value + (byte % 128) * Pow128(shift)

(* unpack_varint(data, offset): offset counts items from 0.  The result    *)
(* is [ok, value, consumed]; ok is FALSE for "Incomplete varint encoding"  *)
(* and when the bytes to read are inside a text chunk.                     *)
RECURSIVE unpack_varint_from(_, _, _, _)
unpack_varint_from(data, pos, shift, value) ==
    IF pos > Len(data) \/ data[pos].k # "b"
    THEN [ok |-> FALSE, value |-> 0, pos |-> pos]
    ELSE IF data[pos].v < 128
    THEN [ok |-> TRUE, value |-> varint_or(value, data[pos].v, shift),
          pos |-> pos + 1]
    ELSE unpack_varint_from(data, pos + 1, shift + 1,
                            varint_or(value, data[pos].v, shift))

unpack_varint(data, offset) ==
    The({[ok |-> r.ok, value |-> r.value, consumed |-> r.pos - (offset + 1)] :
            r \in {unpack_varint_from(data, offset + 1, 0, 0)}})

(* The same two functions on integers of 63 bits.  A wide value is the     *)
(* sequence <<l0, l1, l2>> of its three groups of 21 bits, lowest first,   *)
(* so that value = l0 + 2^21 * l1 + 2^42 * l2; a group holds three groups  *)
(* of seven bits.  Bytes are plain integers 0..255 here.                   *)
WideLimb == 2097152
wide_shr7(w) ==
    <<(w[1] \div 128) + (w[2] % 128) * 16384, (w[2] \div 128) + (w[3] % 128) * 16384,
      w[3] \div 128>>
wide_ge_0x80(w) == w[1] >= 128 \/ w[2] > 0 \/ w[3] > 0

RECURSIVE pack_varint_wide(_)
pack_varint_wide(w) ==
    IF wide_ge_0x80(w)
    THEN <<(w[1] % 128) + 128>> \o pack_varint_wide(wide_shr7(w))
    ELSE <<w[1] % 128>>

(* value |= (byte & 0x7F) << shift, shift counting groups of seven bits;   *)
(* a bit set above bit 62 gives WideOverflow                               *)
WideOverflow == <<-1, -1, -1>>
wide_or(w, byte, shift) ==
    IF byte % 128 = 0 \/ w = WideOverflow THEN w
    ELSE IF shift >= 9 THEN WideOverflow
    ELSE [w EXCEPT ![(shift \div 3) + 1] = @ + (byte % 128) * Pow128(shift % 3)]

RECURSIVE unpack_varint_wide_from(_, _, _, _)
unpack_varint_wide_from(data, pos, shift, w) ==
    IF pos > Len(data)
    THEN [ok |-> FALSE, value |-> <<0, 0, 0>>, pos |-> pos]
    ELSE IF data[pos] < 128
    THEN [ok |-> TRUE, value |-> wide_or(w, data[pos], shift), pos |-> pos + 1]
    ELSE unpack_varint_wide_from(data, pos + 1, shift + 1, wide_or(w, data[pos], shift))

(* unpack_varint that returns the position reached instead of the number   *)
(* of bytes consumed                                                       *)
unpack_varint_wide_abs(data, offset) ==
    The({[ok |-> r.ok, value |-> r.value, consumed |-> r.pos - 1] :
            r \in {unpack_varint_wide_from(data, offset + 1, 0, <<0, 0, 0>>)}})

unpack_varint_wide(data, offset) ==
    The({[ok |-> r.ok, value |-> r.value, consumed |-> r.pos - (offset + 1)] :
            r \in {unpack_varint_wide_from(data, offset + 1, 0, <<0, 0, 0>>)}})

(* pack_uint32(value & 0xFFFFFFFF) for a negative value of 32 bits: the    *)
(* four bytes of its two's complement, big-endian, which are the          *)
(* complements of the bytes of -value - 1.                                 *)
pack_uint32(value) ==
    The({<<255 - (m \div 16777216), 255 - ((m \div 65536) % 256),
           255 - ((m \div 256) % 256), 255 - (m % 256)>> :
            m \in {(0 - value) - 1}})

(* unpack_uint32(data, offset) followed by the conversion of a value above *)
(* 0x7FFFFFFF to a signed one; struct.error when fewer than four bytes are *)
(* left.                                                                   *)
unpack_uint32(data, offset) ==
    IF offset + 4 > Len(data) \/ \E i \in 1..4 : data[offset + i].k # "b"
    THEN [ok |-> FALSE, value |-> 0, consumed |-> 0]
    ELSE IF data[offset + 1].v >= 128
    THEN [ok |-> TRUE,
          value |-> 0 - ((255 - data[offset + 1].v) * 16777216
                         + (255 - data[offset + 2].v) * 65536
                         + (255 - data[offset + 3].v) * 256
                         + (255 - data[offset + 4].v)) - 1,
          consumed |-> 4]
    ELSE [ok |-> TRUE,
          value |-> data[offset + 1].v * 16777216 + data[offset + 2].v * 65536
                    + data[offset + 3].v * 256 + data[offset + 4].v,
          consumed |-> 4]

RECURSIVE ByteLen(_)
ByteLen(data) == IF data = <<>> THEN 0 ELSE Head(data).n + ByteLen(Tail(data))

(***************************************************************************)
(* chidb/record.py : the record codec                                      *)
(***************************************************************************)
TNULL == 0
TINTEGER == 1
TTEXT == 3
TBLOB == 4

NullV == [ty |-> "null", i |-> 0, s |-> NoText]
IntV(n) == [ty |-> "int", i |-> n, s |-> NoText]
TextV(s) == [ty |-> "text", i |-> 0, s |-> s]
BlobV(s) == [ty |-> "blob", i |-> 0, s |-> s]
Txt(tok) == [tok |-> tok, len |-> TextLen, meta |-> NoMeta]

get_type_code(value) ==
    IF value.ty = "null" THEN TNULL
    ELSE IF value.ty = "int" THEN TINTEGER
    ELSE IF value.ty = "text" THEN TTEXT
    ELSE TBLOB

encode_value(value) ==
    IF value.ty = "null" THEN <<>>
    ELSE IF value.ty = "int"
    THEN (IF value.i < 0 THEN Bytes(pack_uint32(value.i))
          ELSE Bytes(pack_varint(value.i)))
    ELSE Bytes(pack_varint(value.s.len)) \o <<ChunkItem(value.s)>>

RECURSIVE ConcatAll(_)
ConcatAll(ss) == IF ss = <<>> THEN <<>> ELSE Head(ss) \o ConcatAll(Tail(ss))

(* Record.encode: header size, column count, type codes, values *)
encode(values) ==
    The({Bytes(pack_varint(Len(header))) \o header \o
         ConcatAll([i \in 1..Len(values) |-> encode_value(values[i])]) :
            header \in {Bytes(pack_varint(Len(values))) \o
                        ConcatAll([i \in 1..Len(values) |->
                                     Bytes(pack_varint(get_type_code(values[i])))])}})

(* _decode_value(data, offset, type_code) = [ok, value, consumed] *)
decode_text(data, offset, r) ==
    IF /\ r.ok
       /\ offset + r.consumed + 1 <= Len(data)
       /\ data[offset + r.consumed + 1].k = "s"
       /\ data[offset + r.consumed + 1].n = r.value
    THEN [ok |-> TRUE, value |-> TextV(data[offset + r.consumed + 1].t),
          consumed |-> r.consumed + 1]
    ELSE [ok |-> FALSE, value |-> NullV, consumed |-> 0]

decode_blob(data, offset, r) ==
    The({[ok |-> d.ok, value |-> IF d.ok THEN BlobV(d.value.s) ELSE NullV,
          consumed |-> d.consumed] : d \in {decode_text(data, offset, r)}})

(* the INTEGER case: the varint is tried first, the four-byte encoding     *)
(* when reading the varint raised                                          *)
decode_integer(data, offset, r) ==
    IF r.ok THEN [ok |-> TRUE, value |-> IntV(r.value), consumed |-> r.consumed]
    ELSE The({[ok |-> u.ok, value |-> IntV(u.value), consumed |-> u.consumed] :
                 u \in {unpack_uint32(data, offset)}})

decode_value(data, offset, type_code) ==
    IF type_code = TNULL THEN [ok |-> TRUE, value |-> NullV, consumed |-> 0]
    ELSE IF type_code = TINTEGER
    THEN The({decode_integer(data, offset, r) : r \in {unpack_varint(data, offset)}})
    ELSE IF type_code = TTEXT
    THEN The({decode_text(data, offset, r) : r \in {unpack_varint(data, offset)}})
    ELSE IF type_code = TBLOB
    THEN The({decode_blob(data, offset, r) : r \in {unpack_varint(data, offset)}})
    ELSE [ok |-> FALSE, value |-> NullV, consumed |-> 0]

(* the loop of Record.decode over the type codes of the header *)
RECURSIVE decode_types(_, _, _)
decode_types(data, offset, n) ==
    IF n = 0 THEN [ok |-> TRUE, codes |-> <<>>, offset |-> offset]
    ELSE The({IF ~r.ok THEN [ok |-> FALSE, codes |-> <<>>, offset |-> offset]
              ELSE The({[ok |-> rest.ok, codes |-> <<r.value>> \o rest.codes,
                         offset |-> rest.offset] :
                           rest \in {decode_types(data, offset + r.consumed, n - 1)}}) :
                 r \in {unpack_varint(data, offset)}})

(* the loop of Record.decode over the values *)
RECURSIVE decode_values(_, _, _)
decode_values(data, offset, codes) ==
    IF codes = <<>> THEN [ok |-> TRUE, values |-> <<>>]
    ELSE The({IF ~r.ok THEN [ok |-> FALSE, values |-> <<>>]
              ELSE The({[ok |-> rest.ok, values |-> <<r.value>> \o rest.values] :
                           rest \in {decode_values(data, offset + r.consumed, Tail(codes))}}) :
                 r \in {decode_value(data, offset, Head(codes))}})

decode_columns(data, hs, nc) ==
    The({IF ~hs.ok \/ ~nc.ok \/ ~ts.ok THEN [ok |-> FALSE, values |-> <<>>]
         ELSE decode_values(data, ts.offset, ts.codes) :
            ts \in {IF hs.ok /\ nc.ok
                    THEN decode_types(data, hs.consumed + nc.consumed, nc.value)
                    ELSE [ok |-> FALSE, codes |-> <<>>, offset |-> 0]}})

(* Record.decode(data) = [ok, values] *)
decode(data) ==
    The({The({decode_columns(data, hs, nc) : nc \in {unpack_varint(data, hs.consumed)}}) :
            hs \in {unpack_varint(data, 0)}})

(***************************************************************************)
(* chidb/pager.py                                                          *)
(***************************************************************************)
NoCells == <<>>

(* A page buffer: `size` is its length in bytes.  A B-tree node has its    *)
(* cells and right pointer; the header page has the stored page size       *)
(* (bytes 8..11) and page count (bytes 16..19), and the magic number       *)
(* exactly when kind = "header"; data written by a caller of the pager is  *)
(* told apart by `tok`.                                                    *)
empty_page(page_size) ==
    [kind |-> "zero", cells |-> NoCells, right |-> 0, npages |-> 0,
     size |-> page_size, page_size |-> 0, tok |-> 0]
ZeroPage == empty_page(DEFAULT_PAGE_SIZE)

create_header_sized(page_size) ==
    [kind |-> "header", cells |-> NoCells, right |-> 0, npages |-> 1,
     size |-> page_size, page_size |-> page_size, tok |-> 0]
create_header == create_header_sized(DEFAULT_PAGE_SIZE)

(* Pager._create_new: a file of one header page, num_pages = 1 *)
create_new_sized(page_size) ==
    [num_pages |-> 1, cached |-> {}, cache |-> [i \in PageIds |-> ZeroPage],
     dirty |-> {}, file |-> <<create_header_sized(page_size)>>,
     page_size |-> page_size]
create_new == create_new_sized(DEFAULT_PAGE_SIZE)

(* the length of the file in bytes *)
RECURSIVE file_size(_)
file_size(f) == IF f = <<>> THEN 0 ELSE Head(f).size + file_size(Tail(f))

(* Pager._open_existing on the file `f` with a valid header: the page size *)
(* is the one stored in the header, num_pages = file_size // page_size     *)
open_existing(f) ==
    [num_pages |-> file_size(f) \div f[1].page_size, cached |-> {},
     cache |-> [i \in PageIds |-> ZeroPage],
     dirty |-> {}, file |-> f, page_size |-> f[1].page_size]

(* Pager.read_page: the pager after the read (a miss caches the file's     *)
(* page); the buffer returned is cache[page_id] of the result.             *)
read_page(pg, page_id) ==
    IF page_id \in pg.cached THEN pg
    ELSE [pg EXCEPT !.cached = @ \cup {page_id},
                    !.cache[page_id] = IF page_id < Len(pg.file)
                                       THEN pg.file[page_id + 1]
                                       ELSE empty_page(pg.page_size)]

page_data(pg, page_id) == read_page(pg, page_id).cache[page_id]

(* write_page without  self.dirty_pages.add(page_id) *)
write_page_not_dirty(pg, page_id, data) ==
    [pg EXCEPT !.cache[page_id] = data,
               !.cached = @ \cup {page_id}]

(* Pager.write_page, for a valid page_id and len(data) = page_size *)
write_page(pg, page_id, data) ==
    [pg EXCEPT !.cache[page_id] = data,
               !.cached = @ \cup {page_id},
               !.dirty = @ \cup {page_id}]

(* allocate_page without the update of the header's page count *)
allocate_page_stale_header(pg) ==
    [pg |-> [pg EXCEPT !.num_pages = @ + 1,
                       !.cache[pg.num_pages] = empty_page(pg.page_size),
                       !.cached = @ \cup {pg.num_pages},
                       !.dirty = @ \cup {pg.num_pages}],
     page_id |-> pg.num_pages]

(* Pager.allocate_page = [pg, page_id] *)
allocate_page(pg) ==
    The({[pg |-> [p2 EXCEPT !.cache[0].npages = p2.num_pages, !.dirty = @ \cup {0}],
          page_id |-> pg.num_pages] :
            p2 \in {read_page([pg EXCEPT !.num_pages = @ + 1,
                                         !.cache[pg.num_pages] = empty_page(pg.page_size),
                                         !.cached = @ \cup {pg.num_pages},
                                         !.dirty = @ \cup {pg.num_pages}], 0)}})

(* Pager.flush: every dirty cached page is written at its file offset; a   *)
(* write past the end of the file extends it with zero bytes.              *)
SetMax(S) == CHOOSE x \in S : \A y \in S : y <= x

flush_pages(pg, d, newlen) ==
    [pg EXCEPT !.file = [i \in 1..newlen |->
                            IF (i - 1) \in d THEN pg.cache[i - 1]
                            ELSE IF i <= Len(pg.file) THEN pg.file[i]
                            ELSE empty_page(pg.page_size)],
               !.dirty = {}]

flush(pg) ==
    IF pg.dirty = {} THEN pg
    ELSE The({flush_pages(pg, d, IF d # {} /\ SetMax(d) + 1 > Len(pg.file)
                                 THEN SetMax(d) + 1 ELSE Len(pg.file)) :
                 d \in {pg.dirty \cap pg.cached}})

(* Pager.close: flush, then the cache is cleared *)
close(pg) ==
    [flush(pg) EXCEPT !.cached = {}, !.cache = [i \in PageIds |-> ZeroPage]]

(* assert_valid_page_id(page_id, max_page): TRUE when it does not raise *)
assert_valid_page_id(page_id, max_page) == page_id >= 0 /\ page_id <= max_page

RECURSIVE IsPowerOfTwo(_)
IsPowerOfTwo(n) == n = 1 \/ (n > 1 /\ n % 2 = 0 /\ IsPowerOfTwo(n \div 2))

(* Pager(...) that keeps the page size requested when the file exists *)
Pager_init_requested(f, page_size) ==
    IF page_size < 512 \/ ~IsPowerOfTwo(page_size)
    THEN [err |-> "ValueError", pg |-> create_new]
    ELSE IF f = <<>> THEN [err |-> "ok", pg |-> create_new_sized(page_size)]
    ELSE IF file_size(f) < DB_HEADER_SIZE \/ f[1].kind # "header"
    THEN [err |-> "ValueError", pg |-> create_new]
    ELSE [err |-> "ok",
          pg |-> [open_existing(f) EXCEPT !.page_size = page_size,
                                          !.num_pages = file_size(f) \div page_size]]

(* Pager(filename, page_size) on the file `f` (<< >>: no file, or an empty *)
(* one) = [err, pg]                                                        *)
Pager_init(f, page_size) ==
    IF page_size < 512 \/ ~IsPowerOfTwo(page_size)
    THEN [err |-> "ValueError", pg |-> create_new]
    ELSE IF f = <<>> THEN [err |-> "ok", pg |-> create_new_sized(page_size)]
    ELSE IF file_size(f) < DB_HEADER_SIZE \/ f[1].kind # "header"
    THEN [err |-> "ValueError", pg |-> create_new]
    ELSE [err |-> "ok", pg |-> open_existing(f)]

(* Pager.read_page with its checks = [err, pg, data]; data is << >> or     *)
(* <<the buffer returned>>                                                 *)
Pager_read_page(pg, page_id) ==
    IF ~assert_valid_page_id(page_id, pg.num_pages - 1)
    THEN [err |-> "ValueError", pg |-> pg, data |-> <<>>]
    ELSE IF page_id \notin pg.cached /\ page_id >= Len(pg.file)
    THEN [err |-> "IOError", pg |-> pg, data |-> <<>>]
    ELSE The({[err |-> "ok", pg |-> p2, data |-> <<p2.cache[page_id]>>] :
                 p2 \in {read_page(pg, page_id)}})

(* write_page that checks the length of the data after storing it *)
Pager_write_page_late_check(pg, page_id, data) ==
    IF ~assert_valid_page_id(page_id, pg.num_pages - 1)
    THEN [err |-> "ValueError", pg |-> pg]
    ELSE [err |-> IF data.size # pg.page_size THEN "ValueError" ELSE "ok",
          pg |-> write_page(pg, page_id, data)]

(* Pager.write_page with its checks = [err, pg] *)
Pager_write_page(pg, page_id, data) ==
    IF ~assert_valid_page_id(page_id, pg.num_pages - 1)
    THEN [err |-> "ValueError", pg |-> pg]
    ELSE IF data.size # pg.page_size THEN [err |-> "ValueError", pg |-> pg]
    ELSE [err |-> "ok", pg |-> write_page(pg, page_id, data)]

(* A page buffer whose length is no longer page_size (a cell was written   *)
(* at a negative offset, which makes the bytearray grow).  The model does  *)
(* not follow the program beyond such a state.                             *)
Broken(pg) == \E i \in pg.cached : pg.cache[i].size # pg.page_size

(***************************************************************************)
(* chidb/btree.py : BTreeNode                                              *)
(***************************************************************************)
NoData == <<>>
LeafCell(off, key, data) == [off |-> off, key |-> key, data |-> data, child |-> 0]
InternalCell(off, key, child) == [off |-> off, key |-> key, data |-> NoData, child |-> child]

is_leaf(node) == node.kind = "leaf"
num_keys(node) == Len(node.cells)

(* BTreeNode.find_key_index: binary search, indices from 0 *)
RECURSIVE find_key_index_loop(_, _, _, _)
find_key_index_loop(node, key, left, right) ==
    IF left < right
    THEN The({IF node.cells[mid + 1].key < key
              THEN find_key_index_loop(node, key, mid + 1, right)
              ELSE find_key_index_loop(node, key, left, mid) :
                 mid \in {(left + right) \div 2}})
    ELSE left

find_key_index(node, key) == find_key_index_loop(node, key, 0, num_keys(node))

(***************************************************************************)
(* chidb/btree.py : BTree                                                  *)
(***************************************************************************)
SetMin(S) == CHOOSE x \in S : \A y \in S : x <= y

find_free_space(node) ==
    IF num_keys(node) = 0 THEN DEFAULT_PAGE_SIZE
    ELSE SetMin({node.cells[i].off : i \in 1..num_keys(node)})

calculate_used_space(node) ==
    NODE_HEADER_SIZE + (num_keys(node) * 2) + (DEFAULT_PAGE_SIZE - find_free_space(node))

needs_split(node, new_cell_size) ==
    \/ calculate_used_space(node) + new_cell_size > ((DEFAULT_PAGE_SIZE * 3) \div 4)
    \/ num_keys(node) >= MAX_NODE_KEYS

leaf_cell_size(key, record_data) ==
    The({Len(pack_varint(key)) + Len(pack_varint(n)) + n : n \in {ByteLen(record_data)}})

internal_cell_size(key) == Len(pack_varint(key)) + 4

InsertAt(seq, index, e) ==
    [i \in 1..(Len(seq) + 1) |->
        IF i <= index THEN seq[i] ELSE IF i = index + 1 THEN e ELSE seq[i - 1]]

RemoveAt(seq, index) ==
    [i \in 1..(Len(seq) - 1) |-> IF i <= index THEN seq[i] ELSE seq[i + 1]]

(* BTree._create_leaf_node / _create_internal_node = [pg, page_id] *)
create_leaf_node(pg) ==
    The({[pg |-> write_page(a.pg, a.page_id,
                            [a.pg.cache[a.page_id] EXCEPT !.kind = "leaf",
                                                          !.cells = NoCells]),
          page_id |-> a.page_id] : a \in {allocate_page(pg)}})

create_internal_node(pg) ==
    The({[pg |-> write_page(a.pg, a.page_id,
                            [a.pg.cache[a.page_id] EXCEPT !.kind = "internal",
                                                          !.cells = NoCells,
                                                          !.right = 0]),
          page_id |-> a.page_id] : a \in {allocate_page(pg)}})

(* BTree._insert_leaf_cell / _insert_internal_cell on the node buffer      *)
(* `node` of page `page_id`, = [pg, node, err].  The cell goes to          *)
(* find_free_space - len.  A negative offset makes the slice assignment    *)
(* grow the buffer, the pointer shift loop runs, and pack_uint16 raises    *)
(* struct.error before num_keys is incremented and before write_page: the  *)
(* buffer, which is the cached one, keeps the shifted pointers.            *)
insert_cell_overflow(pg, page_id, bad) ==
    [pg |-> [pg EXCEPT !.cache[page_id] = bad, !.cached = @ \cup {page_id}],
     node |-> bad, err |-> "struct.error"]

insert_cell_done(pg, page_id, n2) ==
    [pg |-> write_page(pg, page_id, n2), node |-> n2, err |-> "ok"]

insert_cell_at(pg, page_id, node, index, cell_size, cell_offset, mk(_)) ==
    IF cell_offset < 0
    THEN The({insert_cell_overflow(pg, page_id, bad) :
                 bad \in {[node EXCEPT
                            !.cells = [i \in 1..num_keys(node) |->
                                         IF i <= index + 1 THEN node.cells[i]
                                         ELSE node.cells[i - 1]],
                            !.size = @ + cell_size]}})
    ELSE The({insert_cell_done(pg, page_id, n2) :
                 n2 \in {[node EXCEPT
                            !.cells = InsertAt(node.cells, index, mk(cell_offset))]}})

insert_cell(pg, page_id, node, index, cell_size, mk(_)) ==
    The({insert_cell_at(pg, page_id, node, index, cell_size, cell_offset, mk) :
            cell_offset \in {find_free_space(node) - cell_size}})

insert_leaf_cell(pg, page_id, node, index, key, record_data) ==
    The({insert_cell(pg, page_id, node, index, cell_size,
                     LAMBDA off : LeafCell(off, key, record_data)) :
            cell_size \in {leaf_cell_size(key, record_data)}})

insert_internal_cell(pg, page_id, node, index, key, child_page) ==
    insert_cell(pg, page_id, node, index, internal_cell_size(key),
                LAMBDA off : InternalCell(off, key, child_page))

(* BTree._delete_cell: on the buffer only *)
delete_cell(node, index) == [node EXCEPT !.cells = RemoveAt(node.cells, index)]

(* BTree._update_leaf_cell *)
update_leaf_cell(pg, page_id, node, index, key, record_data) ==
    The({insert_leaf_cell(pg, page_id, n1, index, key, record_data) :
            n1 \in {delete_cell(node, index)}})

NoSplit == <<>>
SplitResult(key, page) == <<[key |-> key, page |-> page]>>
Unsplit(r) == [pg |-> r.pg, split |-> NoSplit, err |-> r.err]

(* Rebuilding a node from a list of cells, as the loops of _split_leaf and *)
(* _split_internal do: cell i of `cs` goes to index i - 1 - skip of the    *)
(* node, for i = from .. to.                                               *)
RECURSIVE fill_leaf(_, _, _, _, _, _, _)
fill_leaf(pg, page_id, node, cs, from, to, skip) ==
    IF from > to THEN [pg |-> pg, node |-> node, err |-> "ok"]
    ELSE The({IF r.err # "ok" THEN r
              ELSE fill_leaf(r.pg, page_id, r.node, cs, from + 1, to, skip) :
                 r \in {insert_leaf_cell(pg, page_id, node, from - 1 - skip,
                                         cs[from].key, cs[from].data)}})

(* for an internal node the range from .. to is run as its first half      *)
(* followed by its second half                                             *)
RECURSIVE fill_internal(_, _, _, _, _, _, _)
fill_internal(pg, page_id, node, cs, from, to, skip) ==
    IF from > to THEN [pg |-> pg, node |-> node, err |-> "ok"]
    ELSE IF from = to
    THEN insert_internal_cell(pg, page_id, node, from - 1 - skip,
                              cs[from].key, cs[from].child)
    ELSE The({IF r.err # "ok" THEN r
              ELSE fill_internal(r.pg, page_id, r.node, cs, ((from + to) \div 2) + 1, to,
                                 skip) :
                 r \in {fill_internal(pg, page_id, node, cs, from, (from + to) \div 2,
                                      skip)}})

(* the end of a split that promotes the last key of the lower half *)
split_done_lower(b, all_cells, split_point, new_page_id) ==
    IF b.err # "ok" THEN [pg |-> b.pg, split |-> NoSplit, err |-> b.err]
    ELSE [pg |-> b.pg,
          split |-> SplitResult(all_cells[split_point].key, new_page_id),
          err |-> "ok"]

(* BTree._split_leaf = [pg, split, err]: the new node is created, the      *)
(* first half of the cells goes back to the node, the second half to the   *)
(* new node, and the first key of the second half is the split key.        *)
split_done(b, all_cells, split_point, new_page_id) ==
    IF b.err # "ok" THEN [pg |-> b.pg, split |-> NoSplit, err |-> b.err]
    ELSE [pg |-> b.pg,
          split |-> SplitResult(all_cells[split_point + 1].key, new_page_id),
          err |-> "ok"]

split_leaf_right(a, new_page_id, all_cells, split_point) ==
    IF a.err # "ok" THEN [pg |-> a.pg, split |-> NoSplit, err |-> a.err]
    ELSE The({split_done(b, all_cells, split_point, new_page_id) :
                 b \in {fill_leaf(read_page(a.pg, new_page_id), new_page_id,
                                  page_data(a.pg, new_page_id), all_cells,
                                  split_point + 1, Len(all_cells), split_point)}})

split_leaf_left(c, page_id, cleared, all_cells, split_point) ==
    The({split_leaf_right(a, c.page_id, all_cells, split_point) :
            a \in {fill_leaf(c.pg, page_id, cleared, all_cells, 1, split_point, 0)}})

split_leaf(pg, page_id, node, key, record_data, insert_idx) ==
    The({split_leaf_left(c, page_id, cleared, all_cells, Len(all_cells) \div 2) :
            c \in {create_leaf_node(pg)},
            cleared \in {[node EXCEPT !.cells = NoCells]},
            all_cells \in {InsertAt(node.cells, insert_idx,
                                    LeafCell(0, key, record_data))}})

(* BTree._split_internal = [pg, split, err].  The right pointer of the     *)
(* node stays as it was and the right pointer of the new node stays 0; the *)
(* cell at the split point goes to neither node.                           *)
split_internal_right(a, new_page_id, all_cells, split_point) ==
    IF a.err # "ok" THEN [pg |-> a.pg, split |-> NoSplit, err |-> a.err]
    ELSE The({split_done(b, all_cells, split_point, new_page_id) :
                 b \in {fill_internal(read_page(a.pg, new_page_id), new_page_id,
                                      page_data(a.pg, new_page_id), all_cells,
                                      split_point + 2, Len(all_cells),
                                      split_point + 1)}})

split_internal_left(c, page_id, cleared, all_cells, split_point) ==
    The({split_internal_right(a, c.page_id, all_cells, split_point) :
            a \in {fill_internal(c.pg, page_id, cleared, all_cells, 1, split_point, 0)}})

split_internal(pg, page_id, node, key, child_page, insert_idx) ==
    The({split_internal_left(c, page_id, cleared, all_cells, Len(all_cells) \div 2) :
            c \in {create_internal_node(pg)},
            cleared \in {[node EXCEPT !.cells = NoCells]},
            all_cells \in {InsertAt(node.cells, insert_idx,
                                    InternalCell(0, key, child_page))}})

(* BTree._insert_into_leaf = [pg, split, err] *)
insert_into_leaf_at(pg, page_id, node, key, record_data, insert_idx) ==
    IF insert_idx < num_keys(node) /\ node.cells[insert_idx + 1].key = key
    THEN The({Unsplit(r) :
                 r \in {update_leaf_cell(pg, page_id, node, insert_idx, key, record_data)}})
    ELSE IF needs_split(node, leaf_cell_size(key, record_data))
    THEN split_leaf(pg, page_id, node, key, record_data, insert_idx)
    ELSE The({Unsplit(r) :
                 r \in {insert_leaf_cell(pg, page_id, node, insert_idx, key, record_data)}})

insert_into_leaf(pg, page_id, node, key, record_data) ==
    The({insert_into_leaf_at(pg, page_id, node, key, record_data, insert_idx) :
            insert_idx \in {find_key_index(node, key)}})

(* BTree._insert_split_into_internal = [pg, split, err] *)
insert_split_into_internal_at(pg, page_id, node, split_key, new_page, insert_idx) ==
    IF needs_split(node, internal_cell_size(split_key))
    THEN split_internal(pg, page_id, node, split_key, new_page, insert_idx)
    ELSE The({Unsplit(r) :
                 r \in {insert_internal_cell(pg, page_id, node, insert_idx,
                                             split_key, new_page)}})

insert_split_into_internal(pg, page_id, node, split_key, new_page) ==
    The({insert_split_into_internal_at(pg, page_id, node, split_key, new_page, insert_idx) :
            insert_idx \in {find_key_index(node, split_key)}})

(* BTree._insert_recursive and _insert_into_internal = [pg, split, err] *)
RECURSIVE insert_recursive(_, _, _, _)
insert_into_internal_after(r, page_id, node) ==
    IF r.err # "ok" \/ r.split = NoSplit THEN r
    ELSE insert_split_into_internal(r.pg, page_id, node, r.split[1].key, r.split[1].page)

insert_into_internal_at(pg, page_id, node, key, record_data, child_page) ==
    The({insert_into_internal_after(r, page_id, node) :
            r \in {insert_recursive(pg, child_page, key, record_data)}})

insert_into_internal(pg, page_id, node, key, record_data) ==
    The({insert_into_internal_at(pg, page_id, node, key, record_data,
                                 IF insert_idx < num_keys(node)
                                 THEN node.cells[insert_idx + 1].child
                                 ELSE node.right) :
            insert_idx \in {find_key_index(node, key)}})

insert_recursive(pg, page_id, key, record_data) ==
    The({IF is_leaf(p1.cache[page_id])
         THEN insert_into_leaf(p1, page_id, p1.cache[page_id], key, record_data)
         ELSE insert_into_internal(p1, page_id, p1.cache[page_id], key, record_data) :
            p1 \in {read_page(pg, page_id)}})

(* BTree._create_new_root = [pg, root, err]: the one cell of the new root  *)
(* is (split_key, left_page) and its right pointer is right_page.          *)
create_new_root_cell(c, split_key, left_page, right_page) ==
    The({[pg |-> r.pg, root |-> c.page_id, err |-> r.err] :
            r \in {insert_internal_cell(c.pg, c.page_id,
                                        [c.pg.cache[c.page_id] EXCEPT !.right = right_page],
                                        0, split_key, left_page)}})

create_new_root(pg, split_key, left_page, right_page) ==
    The({create_new_root_cell(c, split_key, left_page, right_page) :
            c \in {create_internal_node(pg)}})

(* BTree.insert on the tree whose root_page is `root` = [pg, root, err] *)
insert_root(r, root) ==
    IF r.err # "ok" THEN [pg |-> r.pg, root |-> root, err |-> r.err]
    ELSE IF r.split # NoSplit
    THEN create_new_root(r.pg, r.split[1].key, root, r.split[1].page)
    ELSE [pg |-> r.pg, root |-> root, err |-> "ok"]

insert_encoded(pg, root, key, record_data) ==
    The({insert_root(r, root) : r \in {insert_recursive(pg, root, key, record_data)}})

insert(pg, root, key, values) ==
    The({insert_encoded(pg, root, key, record_data) : record_data \in {encode(values)}})

(* BTree._search_recursive = [pg, found, values] *)
RECURSIVE search_recursive(_, _, _)
search_node(p1, node, idx, key) ==
    IF is_leaf(node)
    THEN IF idx < num_keys(node) /\ node.cells[idx + 1].key = key
         THEN [pg |-> p1, found |-> TRUE, values |-> decode(node.cells[idx + 1].data).values]
         ELSE [pg |-> p1, found |-> FALSE, values |-> <<>>]
    ELSE IF idx < num_keys(node)
         THEN search_recursive(p1, node.cells[idx + 1].child, key)
         ELSE IF node.right > 0
              THEN search_recursive(p1, node.right, key)
              ELSE [pg |-> p1, found |-> FALSE, values |-> <<>>]

search_recursive(pg, page_id, key) ==
    The({The({search_node(p1, p1.cache[page_id], idx, key) :
                 idx \in {find_key_index(p1.cache[page_id], key)}}) :
            p1 \in {read_page(pg, page_id)}})

search(pg, root, key) == search_recursive(pg, root, key)

(* BTree._scan_recursive = [pg, rows]; a row is [key, values] *)
RECURSIVE scan_recursive(_, _)
RECURSIVE scan_children(_, _, _)
scan_children(pg, node, i) ==
    IF i > num_keys(node)
    THEN IF node.right # 0 THEN scan_recursive(pg, node.right)
         ELSE [pg |-> pg, rows |-> <<>>]
    ELSE The({The({[pg |-> b.pg, rows |-> a.rows \o b.rows] :
                      b \in {scan_children(a.pg, node, i + 1)}}) :
                 a \in {scan_recursive(pg, node.cells[i].child)}})

scan_node(p1, node) ==
    IF is_leaf(node)
    THEN [pg |-> p1,
          rows |-> [i \in 1..num_keys(node) |->
                      [key |-> node.cells[i].key,
                       values |-> decode(node.cells[i].data).values]]]
    ELSE scan_children(p1, node, 1)

scan_recursive(pg, page_id) ==
    The({scan_node(p1, p1.cache[page_id]) : p1 \in {read_page(pg, page_id)}})

scan(pg, root) == scan_recursive(pg, root)

(* BTree._delete_recursive = [pg, deleted] *)
RECURSIVE delete_recursive(_, _, _)
delete_node(p1, page_id, node, idx, key) ==
    IF is_leaf(node)
    THEN IF idx < num_keys(node) /\ node.cells[idx + 1].key = key
         THEN [pg |-> write_page(p1, page_id, delete_cell(node, idx)), deleted |-> TRUE]
         ELSE [pg |-> p1, deleted |-> FALSE]
    ELSE IF idx < num_keys(node)
         THEN delete_recursive(p1, node.cells[idx + 1].child, key)
         ELSE IF node.right > 0
              THEN delete_recursive(p1, node.right, key)
              ELSE [pg |-> p1, deleted |-> FALSE]

delete_recursive(pg, page_id, key) ==
    The({The({delete_node(p1, page_id, p1.cache[page_id], idx, key) :
                 idx \in {find_key_index(p1.cache[page_id], key)}}) :
            p1 \in {read_page(pg, page_id)}})

delete(pg, root, key) == delete_recursive(pg, root, key)

(* BTree.update = [pg, root, err, updated] *)
update_insert(d, root, key, values) ==
    IF d.deleted
    THEN The({[pg |-> r.pg, root |-> r.root, err |-> r.err, updated |-> TRUE] :
                 r \in {insert(d.pg, root, key, values)}})
    ELSE [pg |-> d.pg, root |-> root, err |-> "ok", updated |-> FALSE]

update(pg, root, key, values) ==
    The({update_insert(d, root, key, values) : d \in {delete_recursive(pg, root, key)}})

(***************************************************************************)
(* chidb/sql/parser.py : the statements and expressions, as the parser     *)
(* hands them to the controller.  A table name is a number; its text is    *)
(* NameLen characters long, or ShortNameLen for the names of ShortNames.   *)
(***************************************************************************)
ColumnDef(name, type, primary_key) ==
    [name |-> name, type |-> type, primary_key |-> primary_key]
Literal(v) == [k |-> "lit", v |-> v, name |-> "", ty |-> "int"]
LiteralBool(b) == [k |-> "lit", v |-> IF b THEN 1 ELSE 0, name |-> "", ty |-> "int"]
LiteralNull == [k |-> "lit", v |-> 0, name |-> "", ty |-> "null"]
Identifier(name) == [k |-> "ident", v |-> 0, name |-> name, ty |-> ""]
BinaryOp(left, operator, right) ==
    [k |-> "binop", operator |-> operator, left |-> left, right |-> right]
NoWhere == <<>>

(* a statement: the fields a kind of statement does not have are empty; a *)
(* SELECT is SELECT * without ORDER BY, LIMIT, OFFSET and DISTINCT         *)
Statement(op, t) ==
    [op |-> op, table |-> t, columns |-> <<>>, values |-> <<>>,
     assignments |-> <<>>, where |-> NoWhere]
NoStatement == Statement("none", 0)

CompareOperators == {"=", "!=", "<", "<=", ">", ">="}

(* the comparison operators of Python on two integers *)
py_compare(operator, l, r) ==
    CASE operator = "=" -> l = r
      [] operator = "!=" -> l # r
      [] operator = "<" -> l < r
      [] operator = "<=" -> l <= r
      [] operator = ">" -> l > r
      [] operator = ">=" -> l >= r

(***************************************************************************)
(* chidb/sql/optimizer.py                                                  *)
(***************************************************************************)
expressions_equal(e1, e2) ==
    /\ e1.k = e2.k
    /\ IF e1.k = "lit" THEN e1.ty = e2.ty /\ e1.v = e2.v ELSE e1.name = e2.name

(* the comparison of None with an integer raises for the operators of      *)
(* order, and the expression is then returned as it is                     *)
fold_constants(expr) ==
    IF expr.left.ty = "int" /\ expr.right.ty = "int"
    THEN LiteralBool(py_compare(expr.operator, expr.left.v, expr.right.v))
    ELSE IF expr.operator = "=" THEN LiteralBool(expr.left.ty = expr.right.ty)
    ELSE IF expr.operator = "!=" THEN LiteralBool(expr.left.ty # expr.right.ty)
    ELSE expr

optimize_expression(expr) ==
    IF expr.k = "binop"
    THEN IF expr.left.k = "lit" /\ expr.right.k = "lit" THEN fold_constants(expr)
         ELSE IF expr.operator = "=" /\ expressions_equal(expr.left, expr.right)
         THEN LiteralBool(TRUE)
         ELSE IF expr.operator = "!=" /\ expressions_equal(expr.left, expr.right)
         THEN LiteralBool(FALSE)
         ELSE expr
    ELSE expr

optimize_select(stmt) ==
    IF stmt.where # NoWhere
    THEN [stmt EXCEPT !.where = <<optimize_expression(stmt.where[1])>>]
    ELSE stmt

(***************************************************************************)
(* chidb/sql/codegen.py                                                    *)
(***************************************************************************)
Instruction(opcode, p1, p2, p4) == [opcode |-> opcode, p1 |-> p1, p2 |-> p2, p4 |-> p4]
Op0(opcode) == Instruction(opcode, 0, 0, NoText)
Op1(opcode, p1) == Instruction(opcode, p1, 0, NoText)
Op2(opcode, p1, p2) == Instruction(opcode, p1, p2, NoText)

CompareOpcode(operator) ==
    CASE operator = "=" -> "EQ"
      [] operator = "!=" -> "NE"
      [] operator = "<" -> "LT"
      [] operator = "<=" -> "LE"
      [] operator = ">" -> "GT"
      [] operator = ">=" -> "GE"

(* generate_expression: a literal pushes its value (a bool as 1 or 0), an  *)
(* identifier pushes the placeholder 0.                                    *)
RECURSIVE generate_expression(_)
generate_expression(expr) ==
    IF expr.k = "lit"
    THEN IF expr.ty = "null" THEN <<Op0("NULL")>> ELSE <<Op1("INTEGER", expr.v)>>
    ELSE IF expr.k = "ident" THEN <<Op1("INTEGER", 0)>>
    ELSE generate_expression(expr.left) \o generate_expression(expr.right) \o
         <<Op0(CompareOpcode(expr.operator))>>

generate_where_filter(expr) ==
    IF expr.k = "binop"
    THEN generate_expression(expr.left) \o generate_expression(expr.right) \o
         <<Op0(CompareOpcode(expr.operator))>>
    ELSE generate_expression(expr)

(* generate_select = [err, program]: no JUMP_IF_FALSE follows the WHERE    *)
(* instructions; REWIND jumps to CLOSE, NEXT jumps to DATA.  For the       *)
(* columns ['*'] and for named columns alike, num_output_columns = 1.      *)
select_program(root_page, where_instructions) ==
    <<Op2("OPEN_READ", 0, root_page),
      Op2("REWIND", 0, Len(where_instructions) + 5),
      Op1("DATA", 0)>> \o where_instructions \o
    <<Op1("RESULT_ROW", 1), Op2("NEXT", 0, 2), Op1("CLOSE", 0), Op0("HALT")>>

generate_select(table_registry, stmt) ==
    IF table_registry[stmt.table] = 0 THEN [err |-> "ValueError", program |-> <<>>]
    ELSE [err |-> "ok",
          program |-> select_program(table_registry[stmt.table],
                                     IF stmt.where # NoWhere
                                     THEN generate_where_filter(stmt.where[1])
                                     ELSE <<>>)]

(* TableMetadata of a table name in the metadata map (0: none) *)
MetaIndex(metadata_map, name) ==
    IF \E i \in 1..Len(metadata_map) : metadata_map[i].name = name
    THEN CHOOSE i \in 1..Len(metadata_map) : metadata_map[i].name = name
    ELSE 0

(* index of the column named `name`, from 0; the number of columns if none *)
ColumnIndex(columns, name) ==
    IF \E i \in 1..Len(columns) : columns[i].name = name
    THEN (CHOOSE i \in 1..Len(columns) :
             columns[i].name = name /\ \A j \in 1..(i - 1) : columns[j].name # name) - 1
    ELSE Len(columns)

push_value(value) ==
    IF value.ty = "null" THEN Op0("NULL")
    ELSE IF value.ty = "int" THEN Op1("INTEGER", value.i)
    ELSE Instruction("STRING", 0, 0, value.s)

insert_program(root_page, key, values) ==
    <<Op2("OPEN_WRITE", 0, root_page), Op1("INTEGER", key)>> \o
    [i \in 1..Len(values) |-> push_value(values[i])] \o
    <<Op1("MAKE_RECORD", Len(values)), Op1("INSERT", 0), Op1("CLOSE", 0), Op0("HALT")>>

(* generate_insert = [err, program, table_metadata, next_auto_key, key,     *)
(* values]: key and values are those of the record the program inserts;    *)
(* the key is the value given for the primary key column, or the table's   *)
(* next_auto_increment (which is incremented and written into the values), *)
(* or, for a table without primary key, the generator's next_auto_key.     *)
insert_auto_values(values, pk_index, key) ==
    IF pk_index = 0
    THEN IF Len(values) > 1 THEN <<IntV(key)>> \o Tail(values) ELSE <<IntV(key)>>
    ELSE IF pk_index < Len(values) THEN [values EXCEPT ![pk_index + 1] = IntV(key)]
    ELSE values

generate_insert_pk(root_page, metadata_map, auto_key, stmt, m, pk_index) ==
    IF pk_index < Len(stmt.values) /\ stmt.values[pk_index + 1].ty # "null"
    THEN [err |-> "ok",
          program |-> insert_program(root_page, stmt.values[pk_index + 1].i, stmt.values),
          table_metadata |-> metadata_map,
          next_auto_key |-> auto_key,
          key |-> stmt.values[pk_index + 1].i,
          values |-> stmt.values]
    ELSE [err |-> "ok",
          program |-> insert_program(root_page, metadata_map[m].next_auto_increment,
                                     insert_auto_values(stmt.values, pk_index,
                                         metadata_map[m].next_auto_increment)),
          table_metadata |-> [metadata_map EXCEPT ![m].next_auto_increment = @ + 1],
          next_auto_key |-> auto_key,
          key |-> metadata_map[m].next_auto_increment,
          values |-> insert_auto_values(stmt.values, pk_index,
                                        metadata_map[m].next_auto_increment)]

generate_insert_at(root_page, metadata_map, auto_key, stmt, m) ==
    IF m # 0 /\ metadata_map[m].primary_key_column # <<>>
    THEN generate_insert_pk(root_page, metadata_map, auto_key, stmt, m,
                            ColumnIndex(metadata_map[m].columns,
                                        metadata_map[m].primary_key_column[1]))
    ELSE [err |-> "ok",
          program |-> insert_program(root_page, auto_key, stmt.values),
          table_metadata |-> metadata_map,
          next_auto_key |-> auto_key + 1,
          key |-> auto_key,
          values |-> stmt.values]

generate_insert(table_registry, metadata_map, auto_key, stmt) ==
    IF table_registry[stmt.table] = 0
    THEN [err |-> "ValueError", program |-> <<>>, table_metadata |-> metadata_map,
          next_auto_key |-> auto_key, key |-> 0, values |-> <<>>]
    ELSE The({generate_insert_at(table_registry[stmt.table], metadata_map,
                                 auto_key, stmt, m) :
                 m \in {MetaIndex(metadata_map, stmt.table)}})

(***************************************************************************)
(* chidb/dbm.py : the virtual machine.  A stack value is an integer, a     *)
(* string, None, a bool or a Record.                                       *)
(***************************************************************************)
SInt(i) == [k |-> "int", i |-> i, s |-> NoText, vals |-> <<>>]
SStr(s) == [k |-> "str", i |-> 0, s |-> s, vals |-> <<>>]
SNone == [k |-> "none", i |-> 0, s |-> NoText, vals |-> <<>>]
SBool(b) == [k |-> "bool", i |-> IF b THEN 1 ELSE 0, s |-> NoText, vals |-> <<>>]
SRecord(vals) == [k |-> "record", i |-> 0, s |-> NoText, vals |-> vals]

(* the Python value of a stack value, as a Record field *)
field_value(sv) ==
    IF sv.k = "none" THEN NullV
    ELSE IF sv.k = "str" THEN TextV(sv.s)
    ELSE IntV(sv.i)

NoCursor == [open |-> FALSE, btree |-> 0, writable |-> FALSE, data |-> <<>>,
             position |-> -1, valid |-> FALSE]

(* DatabaseMachine.reset; btrees is the list of (root_page it was opened   *)
(* with, BTree.root_page now)                                              *)
reset(pg) ==
    [pc |-> 0, halted |-> FALSE, stack |-> <<>>, cursor |-> NoCursor, btrees |-> <<>>,
     result_rows |-> <<>>, pg |-> pg, err |-> "ok"]

BTreeIndex(btrees, root_page) ==
    IF \E i \in 1..Len(btrees) : btrees[i].root_page = root_page
    THEN CHOOSE i \in 1..Len(btrees) : btrees[i].root_page = root_page
    ELSE 0

Top(stack, n) == stack[Len(stack) - n]
Pop(stack, n) == SubSeq(stack, 1, Len(stack) - n)

(* _op_open_read / _op_open_write, cursor 0 *)
op_open(m, root_page, writable) ==
    The({[m EXCEPT !.btrees = bts,
                   !.cursor = [open |-> TRUE, btree |-> BTreeIndex(bts, root_page),
                               writable |-> writable, data |-> <<>>,
                               position |-> -1, valid |-> FALSE]] :
            bts \in {IF BTreeIndex(m.btrees, root_page) = 0
                     THEN Append(m.btrees, [root_page |-> root_page, root |-> root_page])
                     ELSE m.btrees}})

(* _op_rewind with Cursor.rewind *)
op_rewind(m, jump_addr) ==
    The({[m EXCEPT !.pg = s.pg,
                   !.cursor.data = s.rows,
                   !.cursor.position = IF s.rows # <<>> THEN 0 ELSE -1,
                   !.cursor.valid = s.rows # <<>>,
                   !.pc = IF s.rows # <<>> THEN @ ELSE jump_addr - 1] :
            s \in {scan(m.pg, m.btrees[m.cursor.btree].root)}})

(* _op_next that jumps to jump_addr without allowing for the increment of *)
(* the loop                                                                *)
op_next_no_adjust(m, jump_addr) ==
    IF ~m.cursor.valid THEN m
    ELSE IF m.cursor.position + 1 >= Len(m.cursor.data)
    THEN [m EXCEPT !.cursor.position = @ + 1, !.cursor.valid = FALSE]
    ELSE [m EXCEPT !.cursor.position = @ + 1, !.pc = jump_addr]

(* _op_next with Cursor.next *)
op_next(m, jump_addr) ==
    IF ~m.cursor.valid THEN m
    ELSE IF m.cursor.position + 1 >= Len(m.cursor.data)
    THEN [m EXCEPT !.cursor.position = @ + 1, !.cursor.valid = FALSE]
    ELSE [m EXCEPT !.cursor.position = @ + 1, !.pc = jump_addr - 1]

(* _op_data with Cursor.get_data *)
op_data(m) ==
    IF ~m.cursor.valid \/ m.cursor.position < 0 \/ m.cursor.position >= Len(m.cursor.data)
    THEN [m EXCEPT !.stack = Append(@, SNone)]
    ELSE [m EXCEPT !.stack = Append(@, SRecord(m.cursor.data[m.cursor.position + 1].values))]

(* _op_compare: right is popped first *)
op_compare(m, operator) ==
    IF Len(m.stack) < 2 THEN [m EXCEPT !.err = "RuntimeError"]
    ELSE IF Top(m.stack, 1).k \in {"int", "bool"} /\ Top(m.stack, 0).k \in {"int", "bool"}
    THEN [m EXCEPT !.stack = Append(Pop(m.stack, 2),
                                    SBool(py_compare(operator, Top(m.stack, 1).i,
                                                     Top(m.stack, 0).i)))]
    ELSE IF operator = "=" THEN [m EXCEPT !.stack = Append(Pop(m.stack, 2), SBool(FALSE))]
    ELSE IF operator = "!=" THEN [m EXCEPT !.stack = Append(Pop(m.stack, 2), SBool(TRUE))]
    ELSE [m EXCEPT !.stack = Pop(m.stack, 2), !.err = "TypeError"]

(* _op_result_row *)
op_result_row(m, num_columns) ==
    IF Len(m.stack) < num_columns THEN [m EXCEPT !.err = "RuntimeError"]
    ELSE [m EXCEPT !.result_rows = Append(@, SubSeq(m.stack, Len(m.stack) - num_columns + 1,
                                                    Len(m.stack))),
                   !.stack = Pop(m.stack, num_columns)]

(* _op_make_record *)
op_make_record(m, num_fields) ==
    IF Len(m.stack) < num_fields THEN [m EXCEPT !.err = "RuntimeError"]
    ELSE [m EXCEPT !.stack =
            Append(Pop(m.stack, num_fields),
                   SRecord([i \in 1..num_fields |->
                              field_value(m.stack[Len(m.stack) - num_fields + i])]))]

(* _op_insert: the record is popped, then the key *)
op_insert(m) ==
    IF Len(m.stack) < 2 THEN [m EXCEPT !.err = "RuntimeError"]
    ELSE IF ~m.cursor.writable
    THEN [m EXCEPT !.stack = Pop(m.stack, 2), !.err = "RuntimeError"]
    ELSE The({[m EXCEPT !.stack = Pop(m.stack, 2),
                        !.pg = r.pg,
                        !.btrees[m.cursor.btree].root = r.root,
                        !.err = r.err] :
                 r \in {insert(m.pg, m.btrees[m.cursor.btree].root,
                               Top(m.stack, 1).i, Top(m.stack, 0).vals)}})

(* _op_jump: the loop of execute adds 1 afterwards *)
op_jump(m, addr) == [m EXCEPT !.pc = addr - 1]

(* `not value` for a stack value; Record defines __len__ *)
py_not(value) ==
    CASE value.k = "none" -> TRUE
      [] value.k \in {"int", "bool"} -> value.i = 0
      [] value.k = "str" -> value.s.len = 0
      [] value.k = "record" -> Len(value.vals) = 0

(* _op_jump_if_false *)
op_jump_if_false(m, addr) ==
    IF m.stack = <<>> THEN [m EXCEPT !.err = "RuntimeError"]
    ELSE IF py_not(Top(m.stack, 0))
    THEN [m EXCEPT !.stack = Pop(m.stack, 1), !.pc = addr - 1]
    ELSE [m EXCEPT !.stack = Pop(m.stack, 1)]

(* _op_delete: the key is read and the cursor is invalidated; the tree is  *)
(* not touched                                                             *)
op_delete(m) ==
    IF ~m.cursor.writable THEN [m EXCEPT !.err = "RuntimeError"]
    ELSE IF ~m.cursor.valid THEN [m EXCEPT !.err = "RuntimeError"]
    ELSE [m EXCEPT !.cursor.valid = FALSE]

(* the index from 0 of the first pair of `data` whose key is `key`, or -1 *)
seek_index(data, key) ==
    IF \E i \in 1..Len(data) : data[i].key = key
    THEN (CHOOSE i \in 1..Len(data) :
             data[i].key = key /\ \A j \in 1..(i - 1) : data[j].key # key) - 1
    ELSE -1

(* Cursor.seek on the data the cursor holds *)
seek_loaded(m, key) ==
    The({IF i >= 0 THEN [m EXCEPT !.cursor.position = i, !.cursor.valid = TRUE]
         ELSE [m EXCEPT !.cursor.valid = FALSE] :
            i \in {seek_index(m.cursor.data, key)}})

(* _op_seek with Cursor.seek: the tree is scanned when the cursor holds no *)
(* data                                                                    *)
op_seek(m, key) ==
    IF m.cursor.data # <<>> THEN seek_loaded(m, key)
    ELSE The({seek_loaded([m EXCEPT !.pg = s.pg, !.cursor.data = s.rows], key) :
                 s \in {scan(m.pg, m.btrees[m.cursor.btree].root)}})

(* _op_key with Cursor.get_key *)
op_key(m) ==
    IF ~m.cursor.valid \/ m.cursor.position < 0 \/ m.cursor.position >= Len(m.cursor.data)
    THEN [m EXCEPT !.stack = Append(@, SNone)]
    ELSE [m EXCEPT !.stack = Append(@, SInt(m.cursor.data[m.cursor.position + 1].key))]

(* _execute_instruction, for the opcodes the code generator emits and the  *)
(* jumps                                                                   *)
execute_instruction(m, instr) ==
    CASE instr.opcode = "OPEN_READ" -> op_open(m, instr.p2, FALSE)
      [] instr.opcode = "OPEN_WRITE" -> op_open(m, instr.p2, TRUE)
      [] instr.opcode = "CLOSE" -> [m EXCEPT !.cursor = NoCursor]
      [] instr.opcode = "REWIND" -> op_rewind(m, instr.p2)
      [] instr.opcode = "NEXT" -> op_next(m, instr.p2)
      [] instr.opcode = "KEY" -> op_key(m)
      [] instr.opcode = "DATA" -> op_data(m)
      [] instr.opcode = "SEEK" -> op_seek(m, instr.p2)
      [] instr.opcode = "INSERT" -> op_insert(m)
      [] instr.opcode = "DELETE" -> op_delete(m)
      [] instr.opcode = "HALT" -> [m EXCEPT !.halted = TRUE]
      [] instr.opcode = "RESULT_ROW" -> op_result_row(m, instr.p1)
      [] instr.opcode = "INTEGER" -> [m EXCEPT !.stack = Append(@, SInt(instr.p1))]
      [] instr.opcode = "STRING" -> [m EXCEPT !.stack = Append(@, SStr(instr.p4))]
      [] instr.opcode = "NULL" -> [m EXCEPT !.stack = Append(@, SNone)]
      [] instr.opcode = "MAKE_RECORD" -> op_make_record(m, instr.p1)
      [] instr.opcode = "EQ" -> op_compare(m, "=")
      [] instr.opcode = "NE" -> op_compare(m, "!=")
      [] instr.opcode = "LT" -> op_compare(m, "<")
      [] instr.opcode = "LE" -> op_compare(m, "<=")
      [] instr.opcode = "GT" -> op_compare(m, ">")
      [] instr.opcode = "GE" -> op_compare(m, ">=")
      [] instr.opcode = "JUMP" -> op_jump(m, instr.p1)
      [] instr.opcode = "JUMP_IF_FALSE" -> op_jump_if_false(m, instr.p1)

(* one turn of the loop of DatabaseMachine.execute *)
execute_step(m, program) ==
    The({IF m2.halted \/ m2.err # "ok" THEN m2 ELSE [m2 EXCEPT !.pc = @ + 1] :
            m2 \in {execute_instruction(m, program[m.pc + 1])}})

(* the loop of DatabaseMachine.execute *)
RECURSIVE run(_, _)
run(m, program) ==
    IF m.err # "ok" \/ m.halted \/ m.pc >= Len(program) THEN m
    ELSE The({run(IF m2.halted \/ m2.err # "ok" THEN m2 ELSE [m2 EXCEPT !.pc = @ + 1],
                  program) :
                 m2 \in {execute_instruction(m, program[m.pc + 1])}})

dbm_execute(pg, program) == run(reset(pg), program)

(* no machine: the value of vm outside SpecVM *)
NoVM == [program |-> <<>>, m |-> reset(create_new), prev |-> -1, deleted |-> {},
         visited |-> <<>>]

(***************************************************************************)
(* chidb/api.py : TableMetadata and its JSON form.  A JSON text is a text  *)
(* value whose length is the length json.dumps gives and whose `meta` is   *)
(* the dictionary it spells.                                               *)
(***************************************************************************)
RECURSIVE Digits(_)
Digits(n) == IF n < 10 THEN 1 ELSE 1 + Digits(n \div 10)

TableMetadata(name, root_page, columns, primary_key_column, next_auto_increment) ==
    [name |-> name, root_page |-> root_page, columns |-> columns,
     primary_key_column |-> primary_key_column,
     next_auto_increment |-> next_auto_increment]

to_dict(metadata) ==
    [name |-> metadata.name,
     root_page |-> metadata.root_page,
     columns |-> [i \in 1..Len(metadata.columns) |->
                    [name |-> metadata.columns[i].name,
                     type |-> metadata.columns[i].type,
                     primary_key |-> metadata.columns[i].primary_key]],
     primary_key_column |-> metadata.primary_key_column,
     next_auto_increment |-> metadata.next_auto_increment]

from_dict(data) ==
    TableMetadata(data.name, data.root_page,
                  [i \in 1..Len(data.columns) |->
                     ColumnDef(data.columns[i].name, data.columns[i].type,
                               data.columns[i].primary_key)],
                  data.primary_key_column, data.next_auto_increment)

RECURSIVE SumSeq(_)
SumSeq(s) == IF s = <<>> THEN 0 ELSE Head(s) + SumSeq(Tail(s))

(* len(json.dumps(d)) *)
JsonColumnLen(col) ==
    10 + Len(col.name) + 12 + Len(col.type) + 18 + (IF col.primary_key THEN 4 ELSE 5) + 1

NameLength(name) == IF name \in ShortNames THEN ShortNameLen ELSE NameLen

JsonLen(d) ==
    10 + NameLength(d.name) + 16 + Digits(d.root_page) + 14
    + SumSeq([i \in 1..Len(d.columns) |-> JsonColumnLen(d.columns[i])])
    + (IF Len(d.columns) > 1 THEN 2 * (Len(d.columns) - 1) ELSE 0)
    + 25 + (IF d.primary_key_column = <<>> THEN 4 ELSE Len(d.primary_key_column[1]) + 2)
    + 25 + Digits(d.next_auto_increment) + 1

json_dumps(d) == [tok |-> 0, len |-> JsonLen(d), meta |-> <<d>>]

(***************************************************************************)
(* chidb/api.py : YesDB.  `db` is the record of the handle's fields:       *)
(* pager, tables, table_metadata, catalog_root (the root_page of         *)
(* catalog_btree), next_auto_key (of the code generator) and result_rows   *)
(* (of the machine).                                                       *)
(***************************************************************************)
NoTables == [n \in TableNames |-> 0]

(* YesDB._save_table_to_catalog = [db, err] *)
save_table_to_catalog(db, metadata) ==
    The({[db |-> [db EXCEPT !.pager = IF r.err = "ok" THEN flush(r.pg) ELSE r.pg,
                            !.catalog_root = r.root],
          err |-> r.err] :
            r \in {insert(db.pager, db.catalog_root, Len(db.table_metadata),
                          <<TextV(json_dumps(to_dict(metadata)))>>)}})

(* YesDB._create_system_catalog *)
create_system_catalog(pg) ==
    The({[pager |-> c.pg, tables |-> NoTables, table_metadata |-> <<>>,
          catalog_root |-> c.page_id, next_auto_key |-> 1, result_rows |-> <<>>] :
            c \in {create_leaf_node(pg)}})

(* the loop of YesDB._load_system_catalog over the scanned records; a      *)
(* record that is not a JSON text ends the loop (the exception is caught)  *)
RECURSIVE load_records(_, _, _)
load_records(db, rows, i) ==
    IF i > Len(rows) THEN db
    ELSE IF rows[i].values = <<>> THEN db
    ELSE IF \/ rows[i].values[1].ty = "null"
            \/ rows[i].values[1].ty = "int" /\ rows[i].values[1].i = 0
            \/ rows[i].values[1].ty = "text" /\ rows[i].values[1].s.len = 0
    THEN load_records(db, rows, i + 1)
    ELSE IF rows[i].values[1].ty # "text" \/ rows[i].values[1].s.meta = <<>> THEN db
    ELSE The({load_records(
                 [db EXCEPT !.table_metadata =
                               IF MetaIndex(@, metadata.name) = 0 THEN Append(@, metadata)
                               ELSE [@ EXCEPT ![MetaIndex(@, metadata.name)] = metadata],
                            !.tables[metadata.name] = metadata.root_page],
                 rows, i + 1) :
                 metadata \in {from_dict(rows[i].values[1].s.meta[1])}})

(* YesDB._load_system_catalog: the catalog is read from page 1 *)
load_system_catalog(pg) ==
    The({load_records([pager |-> s.pg, tables |-> NoTables, table_metadata |-> <<>>,
                       catalog_root |-> SYSTEM_CATALOG_PAGE, next_auto_key |-> 1,
                       result_rows |-> <<>>], s.rows, 1) :
            s \in {scan(pg, SYSTEM_CATALOG_PAGE)}})

(* YesDB.__init__ on the file `f` *)
open_db(f) ==
    The({IF pg.num_pages <= 1 THEN create_system_catalog(pg) ELSE load_system_catalog(pg) :
            pg \in {IF f = <<>> THEN create_new ELSE open_existing(f)}})

(* YesDB._execute_create_table = [db, err] *)
first_primary_key(columns) ==
    IF \E i \in 1..Len(columns) : columns[i].primary_key
    THEN <<columns[CHOOSE i \in 1..Len(columns) :
                      columns[i].primary_key /\
                      \A j \in 1..(i - 1) : ~columns[j].primary_key].name>>
    ELSE <<>>

(* the registration of a table on the root page of the first table of the *)
(* metadata map, when there is one                                         *)
create_table_register_shared(db, c, metadata) ==
    The({save_table_to_catalog([db EXCEPT !.pager = c.pg,
                                          !.table_metadata = Append(@, shared),
                                          !.tables[metadata.name] = shared.root_page],
                               shared) :
            shared \in {IF db.table_metadata = <<>> THEN metadata
                        ELSE [metadata EXCEPT !.root_page = db.table_metadata[1].root_page]}})

create_table_register(db, c, metadata) ==
    save_table_to_catalog([db EXCEPT !.pager = c.pg,
                                     !.table_metadata = Append(@, metadata),
                                     !.tables[metadata.name] = c.page_id],
                          metadata)

(* CREATE TABLE that looks for the name after creating the B-tree *)
execute_create_table_late_check(db, stmt) ==
    The({IF db.tables[stmt.table] # 0
         THEN [db |-> [db EXCEPT !.pager = c.pg], err |-> "ValueError"]
         ELSE create_table_register(db, c,
                  TableMetadata(stmt.table, c.page_id, stmt.columns,
                                first_primary_key(stmt.columns), 1)) :
            c \in {create_leaf_node(db.pager)}})

execute_create_table(db, stmt) ==
    IF db.tables[stmt.table] # 0 THEN [db |-> db, err |-> "ValueError"]
    ELSE The({create_table_register(db, c,
                  TableMetadata(stmt.table, c.page_id, stmt.columns,
                                first_primary_key(stmt.columns), 1)) :
                 c \in {create_leaf_node(db.pager)}})

(* the root sync loop of YesDB.execute over dbm.btrees = [db, err] *)
FirstWithRoot(metadata_map, root_page) ==
    IF \E j \in 1..Len(metadata_map) : metadata_map[j].root_page = root_page
    THEN CHOOSE j \in 1..Len(metadata_map) :
            /\ metadata_map[j].root_page = root_page
            /\ \A h \in 1..(j - 1) : metadata_map[h].root_page # root_page
    ELSE 0

RECURSIVE sync_roots(_, _, _)
sync_root_save(db, btrees, i, j) ==
    The({IF s.err # "ok" THEN s ELSE sync_roots(s.db, btrees, i + 1) :
            s \in {save_table_to_catalog(
                      [db EXCEPT !.table_metadata[j].root_page = btrees[i].root],
                      [db.table_metadata[j] EXCEPT !.root_page = btrees[i].root])}})

sync_roots(db, btrees, i) ==
    IF i > Len(btrees) THEN [db |-> db, err |-> "ok"]
    ELSE IF btrees[i].root = btrees[i].root_page THEN sync_roots(db, btrees, i + 1)
    ELSE The({IF j = 0 THEN sync_roots(db, btrees, i + 1)
              ELSE sync_root_save(db, btrees, i, j) :
                 j \in {FirstWithRoot(db.table_metadata, btrees[i].root_page)}})

(* YesDB.execute from dbm.execute on = [db, err] *)
execute_program(db, program) ==
    The({IF m.err # "ok"
         THEN [db |-> [db EXCEPT !.pager = m.pg, !.result_rows = m.result_rows],
               err |-> m.err]
         ELSE sync_roots([db EXCEPT !.pager = m.pg, !.result_rows = m.result_rows],
                         m.btrees, 1) :
            m \in {dbm_execute(db.pager, program)}})

(* YesDB.execute of a SELECT without ORDER BY, LIMIT, OFFSET, DISTINCT *)
execute_select(db, stmt) ==
    The({IF g.err # "ok" THEN [db |-> db, err |-> g.err]
         ELSE execute_program(db, g.program) :
            g \in {generate_select(db.tables, optimize_select(stmt))}})

(* YesDB.execute of an INSERT *)
execute_insert(db, stmt) ==
    The({IF g.err # "ok" THEN [db |-> db, err |-> g.err]
         ELSE execute_program([db EXCEPT !.table_metadata = g.table_metadata,
                                         !.next_auto_key = g.next_auto_key],
                              g.program) :
            g \in {generate_insert(db.tables, db.table_metadata, db.next_auto_key, stmt)}})

(* YesDB._evaluate_where = [err, value] *)
evaluate_where(values, where_expr, table_meta) ==
    IF where_expr.k # "binop" THEN [err |-> "ok", value |-> TRUE]
    ELSE IF where_expr.left.k # "ident" THEN [err |-> "ok", value |-> TRUE]
    ELSE IF ColumnIndex(table_meta.columns, where_expr.left.name) = Len(table_meta.columns)
    THEN [err |-> "ok", value |-> FALSE]
    ELSE IF ColumnIndex(table_meta.columns, where_expr.left.name) >= Len(values)
    THEN [err |-> "IndexError", value |-> FALSE]
    ELSE IF where_expr.right.k # "lit" THEN [err |-> "ok", value |-> FALSE]
    ELSE IF where_expr.operator \notin CompareOperators THEN [err |-> "ok", value |-> TRUE]
    ELSE The({IF record_value.ty = "int" /\ where_expr.right.ty = "int"
              THEN [err |-> "ok",
                    value |-> py_compare(where_expr.operator, record_value.i,
                                         where_expr.right.v)]
              ELSE IF where_expr.operator = "="
              THEN [err |-> "ok",
                    value |-> record_value.ty = "null" /\ where_expr.right.ty = "null"]
              ELSE IF where_expr.operator = "!="
              THEN [err |-> "ok",
                    value |-> ~(record_value.ty = "null" /\ where_expr.right.ty = "null")]
              ELSE [err |-> "TypeError", value |-> FALSE] :
                 record_value \in
                    {values[ColumnIndex(table_meta.columns, where_expr.left.name) + 1]}})

should_apply(values, stmt, table_meta) ==
    IF stmt.where # NoWhere THEN evaluate_where(values, stmt.where[1], table_meta)
    ELSE [err |-> "ok", value |-> TRUE]

(* the assignments of an UPDATE applied to the values of a record *)
RECURSIVE apply_assignments(_, _, _, _)
apply_assignments(values, assignments, i, table_meta) ==
    IF i > Len(assignments) THEN values
    ELSE The({apply_assignments(
                 IF c < Len(table_meta.columns) /\ c < Len(values)
                 THEN [values EXCEPT ![c + 1] = assignments[i].value]
                 ELSE values,
                 assignments, i + 1, table_meta) :
                 c \in {ColumnIndex(table_meta.columns, assignments[i].column)}})

(* the loop of YesDB._execute_update over the scanned records; `root` is   *)
(* the root_page of the local BTree = [pg, err]                            *)
RECURSIVE update_records(_, _, _, _, _, _)
update_record(pg, root, rows, i, stmt, table_meta) ==
    The({IF u.err # "ok" THEN [pg |-> u.pg, err |-> u.err]
         ELSE update_records(u.pg, u.root, rows, i + 1, stmt, table_meta) :
            u \in {update(pg, root, rows[i].key,
                          apply_assignments(rows[i].values, stmt.assignments, 1,
                                            table_meta))}})

update_records(pg, root, rows, i, stmt, table_meta) ==
    IF i > Len(rows) THEN [pg |-> pg, err |-> "ok"]
    ELSE The({IF w.err # "ok" THEN [pg |-> pg, err |-> w.err]
              ELSE IF w.value THEN update_record(pg, root, rows, i, stmt, table_meta)
              ELSE update_records(pg, root, rows, i + 1, stmt, table_meta) :
                 w \in {should_apply(rows[i].values, stmt, table_meta)}})

(* YesDB._execute_update = [db, err] *)
execute_update_scan(db, stmt, s) ==
    The({[db |-> [db EXCEPT !.pager = r.pg], err |-> r.err] :
            r \in {update_records(s.pg, db.tables[stmt.table], s.rows, 1, stmt,
                                  db.table_metadata[MetaIndex(db.table_metadata,
                                                              stmt.table)])}})

execute_update(db, stmt) ==
    IF db.tables[stmt.table] = 0 THEN [db |-> db, err |-> "ValueError"]
    ELSE The({execute_update_scan(db, stmt, s) :
                 s \in {scan(db.pager, db.tables[stmt.table])}})

(* the two loops of YesDB._execute_delete *)
RECURSIVE keys_to_delete(_, _, _, _)
keys_to_delete(rows, i, stmt, table_meta) ==
    IF i > Len(rows) THEN [keys |-> <<>>, err |-> "ok"]
    ELSE The({IF w.err # "ok" THEN [keys |-> <<>>, err |-> w.err]
              ELSE The({[keys |-> IF w.value THEN <<rows[i].key>> \o rest.keys
                                  ELSE rest.keys,
                         err |-> rest.err] :
                           rest \in {keys_to_delete(rows, i + 1, stmt, table_meta)}}) :
                 w \in {should_apply(rows[i].values, stmt, table_meta)}})

RECURSIVE delete_keys(_, _, _, _)
delete_keys(pg, root, keys, i) ==
    IF i > Len(keys) THEN pg
    ELSE The({delete_keys(d.pg, root, keys, i + 1) : d \in {delete(pg, root, keys[i])}})

(* YesDB._execute_delete = [db, err] *)
execute_delete_scan(db, stmt, s) ==
    The({IF ks.err # "ok" THEN [db |-> [db EXCEPT !.pager = s.pg], err |-> ks.err]
         ELSE [db |-> [db EXCEPT !.pager = delete_keys(s.pg, db.tables[stmt.table],
                                                      ks.keys, 1)],
               err |-> "ok"] :
            ks \in {keys_to_delete(s.rows, 1, stmt,
                                   db.table_metadata[MetaIndex(db.table_metadata,
                                                               stmt.table)])}})

execute_delete(db, stmt) ==
    IF db.tables[stmt.table] = 0 THEN [db |-> db, err |-> "ValueError"]
    ELSE The({execute_delete_scan(db, stmt, s) :
                 s \in {scan(db.pager, db.tables[stmt.table])}})

(* the loops of YesDB._save_all_metadata = [pg, root, err] *)
RECURSIVE insert_all_metadata(_, _, _, _)
insert_all_metadata(pg, root, metadata_map, i) ==
    IF i > Len(metadata_map) THEN [pg |-> pg, root |-> root, err |-> "ok"]
    ELSE The({IF r.err # "ok" THEN r
              ELSE insert_all_metadata(r.pg, r.root, metadata_map, i + 1) :
                 r \in {insert(pg, root, i,
                               <<TextV(json_dumps(to_dict(metadata_map[i])))>>)}})

RECURSIVE delete_all_records(_, _, _, _)
delete_all_records(pg, root, rows, i) ==
    IF i > Len(rows) THEN pg
    ELSE The({delete_all_records(d.pg, root, rows, i + 1) :
                 d \in {delete(pg, root, rows[i].key)}})

(* YesDB._save_all_metadata: an exception is caught, and then the flush is *)
(* not reached                                                             *)
save_all_metadata_insert(db, pg) ==
    The({[db EXCEPT !.pager = IF r.err = "ok" THEN flush(r.pg) ELSE r.pg,
                    !.catalog_root = r.root] :
            r \in {insert_all_metadata(pg, db.catalog_root, db.table_metadata, 1)}})

save_all_metadata(db) ==
    The({The({save_all_metadata_insert(db, pg) :
                 pg \in {delete_all_records(s.pg, db.catalog_root, s.rows, 1)}}) :
            s \in {scan(db.pager, db.catalog_root)}})

(* YesDB.close *)
close_db(db) ==
    The({[d EXCEPT !.pager = close(d.pager)] : d \in {save_all_metadata(db)}})

(***************************************************************************)
(* SpecBT: one B-tree on a fresh pager, driven by insert, delete, search   *)
(* and scan (the setting of tests/test_btree.py).                          *)
(***************************************************************************)
Payloads == {<<TextV(Txt(tok))>> : tok \in 1..2}

dbvars == <<tables, table_metadata, catalog_root, next_auto_key, db_open,
            result_rows, expect, last>>

(* the history of a table: the rows the INSERT programs inserted (by key), *)
(* whether CREATE TABLE ran, whether only INSERTs ran on it since, how     *)
(* many INSERTs gave NULL for id, the ids the other INSERTs gave, and      *)
(* whether no statement on it raised.                                      *)
NoExpect ==
    [rows |-> [k \in Keys |-> NoRow], created |-> FALSE, ins_only |-> TRUE,
     auto |-> 0, given |-> {}, clean |-> TRUE]

(* the state of a record no operation ran on *)
NoRec == [stage |-> "none", values |-> <<>>, data |-> <<>>, ok |-> TRUE,
          decoded |-> <<>>]

(***************************************************************************)
(* server/main.py : the state of the server.  A pool key is the pair       *)
(* (user_id, db_name); db_pool maps it to the handle pooled for it (0: the *)
(* key is not in the dictionary); handles lists the YesDB objects made so  *)
(* far, each with the path it was opened on; files holds the paths that    *)
(* exist.  A request is one call of execute_sql, running in a thread of    *)
(* its own: pc is the line it is at, db the handle its local names.        *)
(***************************************************************************)
MaxRequests == 2
MaxUsers == 1
MaxDbNames == 2
Requests == 1..MaxRequests
PoolKeys == (1..MaxUsers) \X (1..MaxDbNames)

(* os.path.join(settings.DATA_DIR, user_id, db_name + ".db") *)
db_path(pool_key) == <<"DATA_DIR", pool_key[1], <<pool_key[2], ".db">>>>

NoRequest == [pc |-> "idle", pool_key |-> <<0, 0>>, db |-> 0]
NoSrv == [db_pool |-> [k \in PoolKeys |-> 0], handles |-> <<>>, files |-> {},
          req |-> [r \in Requests |-> NoRequest]]

InitOthers ==
    /\ rec = NoRec
    /\ written = [i \in PageIds |-> <<>>]
    /\ vm = NoVM
    /\ srv = NoSrv

InitDBUnused ==
    /\ tables = [n \in TableNames |-> 0]
    /\ table_metadata = <<>>
    /\ catalog_root = 0
    /\ next_auto_key = 1
    /\ db_open = FALSE
    /\ result_rows = <<>>
    /\ expect = [n \in TableNames |-> NoExpect]
    /\ last = NoStatement

InitBT ==
    /\ \E c \in {create_leaf_node(create_new)} :
          /\ pager = c.pg
          /\ bt_root = c.page_id
    /\ hist = [k \in Keys |-> NoRow]
    /\ status = "ok"
    /\ ops = [calls |-> 0, mods |-> 0, opens |-> 0]
    /\ InitDBUnused
    /\ InitOthers

(* The file grows to at most MaxPages pages. *)
Fits(pg) == pg.num_pages <= MaxPages

BTInsert(k, values) ==
    /\ ~Broken(pager)
    /\ ops.calls < MaxOps
    /\ \E r \in {insert(pager, bt_root, k, values)} :
          /\ Fits(r.pg)
          /\ pager' = r.pg
          /\ bt_root' = r.root
          /\ status' = r.err
          /\ hist' = IF r.err = "ok" THEN [hist EXCEPT ![k] = <<values>>] ELSE hist
    /\ ops' = [ops EXCEPT !.calls = @ + 1]
    /\ UNCHANGED dbvars
    /\ UNCHANGED others

BTDelete(k) ==
    /\ ~Broken(pager)
    /\ ops.calls < MaxOps
    /\ \E r \in {delete(pager, bt_root, k)} : pager' = r.pg
    /\ hist' = [hist EXCEPT ![k] = NoRow]
    /\ status' = "ok"
    /\ ops' = [ops EXCEPT !.calls = @ + 1]
    /\ UNCHANGED <<bt_root, dbvars>>
    /\ UNCHANGED others

BTSearch(k) ==
    /\ ~Broken(pager)
    /\ \E r \in {search(pager, bt_root, k)} : pager' = r.pg
    /\ status' = "ok"
    /\ UNCHANGED <<bt_root, hist, ops, dbvars>>
    /\ UNCHANGED others

BTScan ==
    /\ ~Broken(pager)
    /\ \E r \in {scan(pager, bt_root)} : pager' = r.pg
    /\ status' = "ok"
    /\ UNCHANGED <<bt_root, hist, ops, dbvars>>
    /\ UNCHANGED others

NextBT ==
    \/ \E k \in Keys, v \in Payloads : BTInsert(k, v)
    \/ \E k \in Keys : BTDelete(k)
    \/ \E k \in Keys : BTSearch(k)
    \/ BTScan

SpecBT == InitBT /\ [][NextBT]_vars

(***************************************************************************)
(* SpecDB: one database handle on a fresh file, driven by SQL statements   *)
(* on the table 1, which is declared (id INTEGER PRIMARY KEY, v TEXT), by  *)
(* close and by reopening the file.  SpecCat: the same handle, driven by   *)
(* CREATE TABLE and INSERT on every table name, close and reopen.          *)
(***************************************************************************)
DB ==
    [pager |-> pager, tables |-> tables, table_metadata |-> table_metadata,
     catalog_root |-> catalog_root, next_auto_key |-> next_auto_key,
     result_rows |-> result_rows]

DBIs(d) ==
    /\ pager = d.pager
    /\ tables = d.tables
    /\ table_metadata = d.table_metadata
    /\ catalog_root = d.catalog_root
    /\ next_auto_key = d.next_auto_key
    /\ result_rows = d.result_rows

DBBecomes(d) ==
    /\ pager' = d.pager
    /\ tables' = d.tables
    /\ table_metadata' = d.table_metadata
    /\ catalog_root' = d.catalog_root
    /\ next_auto_key' = d.next_auto_key
    /\ result_rows' = d.result_rows

(* The file grows to at most MaxPagesDB pages. *)
FitsDB(pg) == pg.num_pages <= MaxPagesDB

(* the columns of CREATE TABLE t *)
Schema(t) ==
    IF t \in {1, MaxTables + 1}
    THEN <<ColumnDef("id", "INTEGER", TRUE), ColumnDef("v", "TEXT", FALSE)>>
    ELSE <<ColumnDef("id", "INTEGER", FALSE), ColumnDef("v", "TEXT", FALSE)>>

(* the values an INSERT gives to the column id *)
IdValues == {NullV, IntV(MaxRowsDB)}

(* the WHERE expressions of SELECT, and those of UPDATE and DELETE *)
SelectWheres ==
    {BinaryOp(Literal(5), "=", Literal(5)),
     BinaryOp(Literal(5), "=", Literal(6)),
     BinaryOp(Identifier("id"), "=", Literal(1))}
ModWheres ==
    {BinaryOp(Identifier("id"), "=", Literal(k)) : k \in 1..MaxRowsDB}
    \cup {BinaryOp(Identifier("id"), "<", Literal(3))}

CreateTableStatement(t) == [Statement("create", t) EXCEPT !.columns = Schema(t)]
InsertStatement(t, idv) ==
    [Statement("insert", t) EXCEPT !.values = <<idv, TextV(Txt(1))>>]
SelectStatement(t, where) == [Statement("select", t) EXCEPT !.where = where]
UpdateStatement(t, where) ==
    [Statement("update", t) EXCEPT
        !.assignments = <<[column |-> "v", value |-> TextV(Txt(2))]>>,
        !.where = where]
DeleteStatement(t, where) == [Statement("delete", t) EXCEPT !.where = where]
CloseCall == Statement("close", 0)
OpenCall == Statement("open", 0)

InitDB ==
    /\ \E d \in {open_db(<<>>)} : DBIs(d)
    /\ db_open = TRUE
    /\ bt_root = 0
    /\ hist = [k \in Keys |-> NoRow]
    /\ status = "ok"
    /\ ops = [calls |-> 0, mods |-> 0, opens |-> 1]
    /\ expect = [n \in TableNames |-> NoExpect]
    /\ last = NoStatement
    /\ InitOthers

Ready == db_open /\ ~Broken(pager)

CreateTable(t) ==
    /\ Ready
    /\ tables[t] = 0
    /\ \E r \in {execute_create_table(DB, CreateTableStatement(t))} :
          /\ FitsDB(r.db.pager)
          /\ DBBecomes(r.db)
          /\ status' = r.err
          /\ expect' = [expect EXCEPT ![t].created = TRUE, ![t].clean = (r.err = "ok")]
    /\ last' = CreateTableStatement(t)
    /\ UNCHANGED <<bt_root, hist, ops, db_open>>
    /\ UNCHANGED others

(* the history after an INSERT whose program inserts (g.key, g.values) *)
Inserted(e, idv, g, err) ==
    IF err # "ok" THEN [e EXCEPT !.clean = FALSE]
    ELSE [e EXCEPT !.rows[g.key] = <<g.values>>,
                   !.auto = IF idv.ty = "null" THEN @ + 1 ELSE @,
                   !.given = IF idv.ty = "null" THEN @ ELSE @ \cup {idv.i}]

Insert(t, idv) ==
    /\ Ready
    /\ tables[t] # 0
    /\ ops.calls < MaxInserts
    /\ \E r \in {execute_insert(DB, InsertStatement(t, idv))} :
          /\ FitsDB(r.db.pager)
          /\ DBBecomes(r.db)
          /\ status' = r.err
          /\ \E g \in {generate_insert(tables, table_metadata, next_auto_key,
                                       InsertStatement(t, idv))} :
                expect' = [expect EXCEPT ![t] = Inserted(@, idv, g, r.err)]
    /\ ops' = [ops EXCEPT !.calls = @ + 1]
    /\ last' = InsertStatement(t, idv)
    /\ UNCHANGED <<bt_root, hist, db_open>>
    /\ UNCHANGED others

Select(t, where) ==
    /\ Ready
    /\ tables[t] # 0
    /\ \E r \in {execute_select(DB, SelectStatement(t, where))} :
          /\ DBBecomes(r.db)
          /\ status' = r.err
    /\ last' = SelectStatement(t, where)
    /\ UNCHANGED <<bt_root, hist, ops, db_open, expect>>
    /\ UNCHANGED others

Update(t, where) ==
    /\ Ready
    /\ tables[t] # 0
    /\ ops.mods < MaxMods
    /\ \E r \in {execute_update(DB, UpdateStatement(t, <<where>>))} :
          /\ FitsDB(r.db.pager)
          /\ DBBecomes(r.db)
          /\ status' = r.err
    /\ expect' = [expect EXCEPT ![t].ins_only = FALSE]
    /\ ops' = [ops EXCEPT !.mods = @ + 1]
    /\ last' = UpdateStatement(t, <<where>>)
    /\ UNCHANGED <<bt_root, hist, db_open>>
    /\ UNCHANGED others

Delete(t, where) ==
    /\ Ready
    /\ tables[t] # 0
    /\ ops.mods < MaxMods
    /\ \E r \in {execute_delete(DB, DeleteStatement(t, <<where>>))} :
          /\ DBBecomes(r.db)
          /\ status' = r.err
    /\ expect' = [expect EXCEPT ![t].ins_only = FALSE]
    /\ ops' = [ops EXCEPT !.mods = @ + 1]
    /\ last' = DeleteStatement(t, <<where>>)
    /\ UNCHANGED <<bt_root, hist, db_open>>
    /\ UNCHANGED others

Close ==
    /\ Ready
    /\ ops.opens < MaxOpens
    /\ \E d \in {close_db(DB)} :
          /\ FitsDB(d.pager)
          /\ DBBecomes(d)
    /\ db_open' = FALSE
    /\ status' = "ok"
    /\ last' = CloseCall
    /\ UNCHANGED <<bt_root, hist, ops, expect>>
    /\ UNCHANGED others

Reopen ==
    /\ ~db_open
    /\ ops.opens < MaxOpens
    /\ \E d \in {open_db(pager.file)} : DBBecomes(d)
    /\ db_open' = TRUE
    /\ status' = "ok"
    /\ ops' = [ops EXCEPT !.opens = @ + 1]
    /\ last' = OpenCall
    /\ UNCHANGED <<bt_root, hist, expect>>
    /\ UNCHANGED others

NextDB ==
    \/ CreateTable(1)
    \/ \E idv \in IdValues : Insert(1, idv)
    \/ Select(1, NoWhere)
    \/ \E where \in SelectWheres : Select(1, <<where>>)
    \/ \E where \in ModWheres : Update(1, where)
    \/ \E where \in ModWheres : Delete(1, where)
    \/ Close
    \/ Reopen

SpecDB == InitDB /\ [][NextDB]_vars

NextCat ==
    \/ \E t \in Names : CreateTable(t)
    \/ \E t \in Names : Insert(t, NullV)
    \/ Close
    \/ Reopen

SpecCat == InitDB /\ [][NextCat]_vars

(* SpecShort: the tables with short names, so that the catalog tree stays  *)
(* one leaf; INSERT statements that leave the key to the code generator.   *)
NextShort ==
    \/ \E t \in ShortNames : CreateTable(t)
    \/ \E t \in ShortNames : Insert(t, NullV)
    \/ Close
    \/ Reopen

SpecShort == InitDB /\ [][NextShort]_vars

(* SpecIso: the tables with short names under INSERT, UPDATE and DELETE *)
NextIso ==
    \/ \E t \in ShortNames : CreateTable(t)
    \/ \E t \in ShortNames : Insert(t, NullV)
    \/ \E t \in ShortNames : Update(t, BinaryOp(Identifier("id"), "=", Literal(1)))
    \/ \E t \in ShortNames : Delete(t, BinaryOp(Identifier("id"), "=", Literal(1)))
    \/ Close
    \/ Reopen

SpecIso == InitDB /\ [][NextIso]_vars

(***************************************************************************)
(* Properties of the B-tree                                                *)
(***************************************************************************)
ScanRows == scan(pager, bt_root).rows
RowKeys(rows) == [i \in 1..Len(rows) |-> rows[i].key]
StrictlyAscending(ks) == \A i \in 1..(Len(ks) - 1) : ks[i] < ks[i + 1]
Occurrences(ks, k) == Cardinality({i \in 1..Len(ks) : ks[i] = k})

(* C1: after any sequence of inserts (each of which returned normally),    *)
(* scan returns the keys in strictly ascending order.                      *)
C1_ScanAscending ==
    (~Broken(pager)) => \A rows \in {ScanRows} : StrictlyAscending(RowKeys(rows))

(* C2: search(k) returns the most recently inserted record of every key    *)
(* that was inserted and not later deleted, and not-found for every other  *)
(* key.                                                                    *)
C2_SearchTotality ==
    (~Broken(pager)) =>
        \A k \in Keys :
            \A r \in {search(pager, bt_root, k)} :
                IF hist[k] = NoRow THEN ~r.found
                ELSE r.found /\ r.values = hist[k][1]

(* C3: every key occurs in at most one leaf cell of the tree, and after    *)
(* insert(k, r) exactly one cell has key k and its payload decodes to r.   *)
C3_KeyUnique ==
    (~Broken(pager)) =>
        \A rows \in {ScanRows} :
            /\ \A k \in Keys : Occurrences(RowKeys(rows), k) <= 1
            /\ \A k \in Keys : hist[k] # NoRow =>
                  /\ Occurrences(RowKeys(rows), k) = 1
                  /\ \A i \in 1..Len(rows) :
                        rows[i].key = k => rows[i].values = hist[k][1]

(***************************************************************************)
(* Properties of the controller                                            *)
(***************************************************************************)
(* what SELECT * FROM t returns on the handle d = [db, err], and what it  *)
(* returns in the current state                                            *)
SelectStarOn(d, t) == execute_select(d, SelectStatement(t, NoWhere))
SelectStar(t) == SelectStarOn(DB, t)

(* the result row that publishes the record `values` *)
RecordRow(values) == <<SRecord(values)>>

(* the rows of a history, in ascending key order *)
RECURSIVE RowsFrom(_, _)
RowsFrom(f, k) ==
    IF k > MaxKey THEN <<>>
    ELSE (IF f[k] = NoRow THEN <<>> ELSE <<RecordRow(f[k][1])>>) \o RowsFrom(f, k + 1)
IdealRows(f) == RowsFrom(f, 1)

(* the value of a WHERE expression  operand OP operand  on a row of t *)
Operand(t, values, e) ==
    IF e.k = "lit" THEN e.v ELSE values[ColumnIndex(Schema(t), e.name) + 1].i
Holds(t, values, w) ==
    py_compare(w.operator, Operand(t, values, w.left), Operand(t, values, w.right))

RECURSIVE RowsWhere(_, _, _, _)
RowsWhere(t, rows, w, keep) ==
    IF rows = <<>> THEN <<>>
    ELSE (IF Holds(t, Head(rows)[1].vals, w) = keep THEN <<Head(rows)>> ELSE <<>>)
         \o RowsWhere(t, Tail(rows), w, keep)

RowsUpdated(t, rows, w) ==
    [i \in 1..Len(rows) |->
        IF Holds(t, rows[i][1].vals, w)
        THEN RecordRow([rows[i][1].vals EXCEPT ![2] = TextV(Txt(2))])
        ELSE rows[i]]

OnlyInserts(t) == expect[t].created /\ expect[t].ins_only /\ expect[t].clean

(* C4: in the first open handle, after any sequence of INSERT statements   *)
(* on a table (none of which raised), SELECT * returns one row for every   *)
(* key inserted so far, in ascending key order.                            *)
C4_SelectAfterInserts ==
    \A t \in Names :
        (Ready /\ ops.opens = 1 /\ OnlyInserts(t)) =>
            \A r \in {SelectStar(t)} :
                r.err = "ok" /\ r.db.result_rows = IdealRows(expect[t].rows)

(* C5: right after the file was closed and opened again, SELECT * on a     *)
(* table that only INSERT statements ran on returns every inserted row,    *)
(* in ascending key order.                                                 *)
C5_SelectAfterReopen ==
    \A t \in Names :
        (Ready /\ last.op = "open" /\ OnlyInserts(t)) =>
            \A r \in {SelectStar(t)} :
                r.err = "ok" /\ r.db.result_rows = IdealRows(expect[t].rows)

(* C6: opening the file again after close gives the table metadata the     *)
(* handle had at close (names, columns, root pages, auto-increment         *)
(* counters), and every table name is registered with its root page.       *)
MetadataSet(m) == {m[i] : i \in 1..Len(m)}
C6_ReopenPreservesMetadata ==
    [][(~db_open /\ db_open') =>
          /\ Len(table_metadata') = Len(table_metadata)
          /\ MetadataSet(table_metadata') = MetadataSet(table_metadata)
          /\ \A i \in 1..Len(table_metadata) :
                tables'[table_metadata[i].name] = table_metadata[i].root_page]_vars

(* C7: an UPDATE t SET v = x WHERE id OP literal that returns changes      *)
(* what SELECT * FROM t returns in exactly this way: the rows for which    *)
(* the WHERE holds have v = x, every other row and column is as before.    *)
C7_UpdateFrame ==
    [][(last'.op = "update" /\ status' = "ok" /\ Ready /\ ~Broken(pager')) =>
          \A b \in {SelectStar(last'.table)} :
              \A a \in {SelectStarOn(DB', last'.table)} :
                  b.err = "ok" =>
                      /\ a.err = "ok"
                      /\ a.db.result_rows =
                            RowsUpdated(last'.table, b.db.result_rows, last'.where[1])]_vars

(* C8: after a DELETE FROM t WHERE id OP literal that returns, SELECT *    *)
(* FROM t returns exactly the rows it returned before for which the WHERE  *)
(* does not hold, in the same order.                                       *)
C8_DeleteWhere ==
    [][(last'.op = "delete" /\ status' = "ok" /\ Ready /\ ~Broken(pager')) =>
          \A b \in {SelectStar(last'.table)} :
              \A a \in {SelectStarOn(DB', last'.table)} :
                  b.err = "ok" =>
                      /\ a.err = "ok"
                      /\ a.db.result_rows =
                            RowsWhere(last'.table, b.db.result_rows, last'.where[1],
                                      FALSE)]_vars

(* C9: a SELECT * FROM t WHERE w that returns publishes exactly the rows   *)
(* of t for which w is true, each as the row's record.                     *)
C9_SelectWhere ==
    (Ready /\ last.op = "select" /\ last.where # NoWhere /\ status = "ok") =>
        \A r \in {SelectStar(last.table)} :
            r.err = "ok" =>
                result_rows = RowsWhere(last.table, r.db.result_rows, last.where[1], TRUE)

(* C10: on the table with the PRIMARY KEY column id, in the handle that    *)
(* created it: after n INSERTs that all gave NULL for id, SELECT * returns *)
(* the rows with ids 1..n, each with its key in the column id; after       *)
(* INSERTs that all gave an id, SELECT * returns one row for every id      *)
(* given, with that id in the column id.                                   *)
RECURSIVE GivenRows(_, _)
GivenRows(S, k) ==
    IF k > MaxKey THEN <<>>
    ELSE (IF k \in S THEN <<RecordRow(<<IntV(k), TextV(Txt(1))>>)>> ELSE <<>>)
         \o GivenRows(S, k + 1)

C10_AutoIncrementKeys ==
    (Ready /\ ops.opens = 1 /\ OnlyInserts(1)) =>
        \A r \in {SelectStar(1)} :
            /\ expect[1].given = {} =>
                  /\ r.err = "ok"
                  /\ r.db.result_rows = GivenRows(1..expect[1].auto, 1)
            /\ expect[1].auto = 0 =>
                  /\ r.err = "ok"
                  /\ r.db.result_rows = GivenRows(expect[1].given, 1)

(***************************************************************************)
(* SpecRec: one record.  A tuple of at most MaxCols supported values is    *)
(* encoded by Record.encode, and the bytes are decoded by Record.decode.   *)
(***************************************************************************)
MaxCols == 2         \* columns of the record under test

ShortText == [tok |-> 1, len |-> 3, meta |-> NoMeta]
EmptyText == [tok |-> 0, len |-> 0, meta |-> NoMeta]
RecValues ==
    {NullV, IntV(0), IntV(5), IntV(300), IntV(-1), IntV(-42), IntV(-200),
     IntV(-2147483647), TextV(ShortText), TextV(EmptyText), BlobV(ShortText)}
RecTuples == UNION {[1..n -> RecValues] : n \in 0..MaxCols}

(* the B-tree and the database handle are not used *)
InitBTUnused ==
    /\ pager = create_new
    /\ bt_root = 0
    /\ hist = [k \in Keys |-> NoRow]
    /\ status = "ok"
    /\ ops = [calls |-> 0, mods |-> 0, opens |-> 0]

InitRec ==
    /\ \E t \in RecTuples : rec = [NoRec EXCEPT !.stage = "new", !.values = t]
    /\ InitBTUnused
    /\ InitDBUnused
    /\ written = [i \in PageIds |-> <<>>]
    /\ vm = NoVM
    /\ srv = NoSrv

RecordEncode ==
    /\ rec.stage = "new"
    /\ rec' = [rec EXCEPT !.stage = "encoded", !.data = encode(rec.values)]
    /\ UNCHANGED <<pager, bt_root, hist, status, ops, dbvars, written, vm, srv>>

RecordDecode ==
    /\ rec.stage = "encoded"
    /\ \E d \in {decode(rec.data)} :
          rec' = [rec EXCEPT !.stage = "decoded", !.ok = d.ok, !.decoded = d.values]
    /\ UNCHANGED <<pager, bt_root, hist, status, ops, dbvars, written, vm, srv>>

NextRec == RecordEncode \/ RecordDecode

SpecRec == InitRec /\ [][NextRec]_vars

(* C11: for every tuple t of supported values (NULL, INTEGER, negative     *)
(* integers in any column included, TEXT, BLOB), decoding the encoding of  *)
(* t raises nothing and gives exactly the values of t.                     *)
C11_RecordRoundTrip ==
    rec.stage = "decoded" => (rec.ok /\ rec.decoded = rec.values)

(***************************************************************************)
(* SpecPager: one Pager on a fresh file created with a page size of        *)
(* PageSizes, driven by allocate_page, write_page, read_page, flush, close *)
(* and by opening the file again with any requested page size.             *)
(***************************************************************************)
MaxPagesPg == 3      \* pages the file of SpecPager may grow to
MaxWrites == 2       \* write_page calls of one behaviour
MaxTok == 2          \* different page contents a caller writes

PageSizes == {512, 1024, 2048, 4096, 8192}

(* page data a caller writes: page_size bytes, or one byte less *)
RawPage(tok, size) == [empty_page(size) EXCEPT !.kind = "raw", !.tok = tok]
PageData(page_size) ==
    {RawPage(tok, page_size) : tok \in 1..MaxTok} \cup {RawPage(1, page_size - 1)}

(* the call executed last: its name, its page id (the id returned, for     *)
(* allocate_page; the page size requested, for Pager(...)), and << >> or   *)
(* <<the buffer given or returned>>                                        *)
PagerCall(op, page_id, data) == [op |-> op, page_id |-> page_id, data |-> data]

pagerunused == <<bt_root, hist, tables, table_metadata, catalog_root,
                 next_auto_key, result_rows, expect, rec, vm, srv>>

InitPager ==
    /\ \E page_size \in PageSizes :
          \E r \in {Pager_init(<<>>, page_size)} :
              /\ pager = r.pg
              /\ status = r.err
              /\ last = PagerCall("init", page_size, <<>>)
    /\ db_open = TRUE
    /\ written = [i \in PageIds |-> <<>>]
    /\ bt_root = 0
    /\ hist = [k \in Keys |-> NoRow]
    /\ ops = [calls |-> 0, mods |-> 0, opens |-> 1]
    /\ tables = [n \in TableNames |-> 0]
    /\ table_metadata = <<>>
    /\ catalog_root = 0
    /\ next_auto_key = 1
    /\ result_rows = <<>>
    /\ expect = [n \in TableNames |-> NoExpect]
    /\ rec = NoRec
    /\ vm = NoVM
    /\ srv = NoSrv

PagerAllocate ==
    /\ db_open
    /\ pager.num_pages < MaxPagesPg
    /\ \E r \in {allocate_page(pager)} :
          /\ pager' = r.pg
          /\ last' = PagerCall("allocate", r.page_id, <<>>)
    /\ status' = "ok"
    /\ UNCHANGED <<db_open, written, ops, pagerunused>>

PagerWrite(page_id, data) ==
    /\ db_open
    /\ ops.calls < MaxWrites
    /\ ops' = [ops EXCEPT !.calls = @ + 1]
    /\ \E r \in {Pager_write_page(pager, page_id, data)} :
          /\ pager' = r.pg
          /\ status' = r.err
          /\ written' = IF r.err = "ok"
                        THEN [written EXCEPT ![page_id] = <<data, ops.opens>>]
                        ELSE written
    /\ last' = PagerCall("write", page_id, <<data>>)
    /\ UNCHANGED <<db_open, pagerunused>>

PagerRead(page_id) ==
    /\ db_open
    /\ \E r \in {Pager_read_page(pager, page_id)} :
          /\ pager' = r.pg
          /\ status' = r.err
          /\ last' = PagerCall("read", page_id, r.data)
    /\ UNCHANGED <<db_open, written, ops, pagerunused>>

PagerFlush ==
    /\ db_open
    /\ pager' = flush(pager)
    /\ status' = "ok"
    /\ last' = PagerCall("flush", 0, <<>>)
    /\ UNCHANGED <<db_open, written, ops, pagerunused>>

PagerClose ==
    /\ db_open
    /\ pager' = close(pager)
    /\ db_open' = FALSE
    /\ status' = "ok"
    /\ last' = PagerCall("close", 0, <<>>)
    /\ UNCHANGED <<written, ops, pagerunused>>

PagerOpen(page_size) ==
    /\ ~db_open
    /\ ops.opens < MaxOpens
    /\ ops' = [ops EXCEPT !.opens = @ + 1]
    /\ \E r \in {Pager_init(pager.file, page_size)} :
          /\ pager' = IF r.err = "ok" THEN r.pg ELSE pager
          /\ db_open' = (r.err = "ok")
          /\ status' = r.err
    /\ last' = PagerCall("open", page_size, <<>>)
    /\ UNCHANGED <<written, pagerunused>>

NextPager ==
    \/ PagerAllocate
    \/ \E page_id \in (0 - 1)..MaxPagesPg : \E data \in PageData(pager.page_size) :
          PagerWrite(page_id, data)
    \/ \E page_id \in (0 - 1)..MaxPagesPg : PagerRead(page_id)
    \/ PagerFlush
    \/ PagerClose
    \/ \E page_size \in PageSizes : PagerOpen(page_size)

SpecPager == InitPager /\ [][NextPager]_vars

(* C12 as stated: a read_page(id) that returns gives the bytes of the most *)
(* recent write_page(id, bytes), for every page id, whatever calls         *)
(* (allocate_page, flush, close and reopen) were made in between.          *)
C12_ReadLastWriteAnyPage ==
    (last.op = "read" /\ status = "ok" /\ written[last.page_id] # <<>>) =>
        last.data = <<written[last.page_id][1]>>

(* C12, amended: the same for every page id other than 0, as long as       *)
(* write_page has not overwritten the header page 0.                       *)
C12_ReadLastWrite ==
    (/\ last.op = "read" /\ status = "ok"
     /\ last.page_id >= 1
     /\ written[last.page_id] # <<>>
     /\ written[0] = <<>>) =>
        last.data = <<written[last.page_id][1]>>

(* a page written before the file was closed is read after the reopen *)
C12_Witness ==
    /\ last.op = "read" /\ status = "ok"
    /\ last.page_id >= 1
    /\ written[last.page_id] # <<>>
    /\ written[0] = <<>>
    /\ written[last.page_id][2] < ops.opens
    /\ last.data = <<RawPage(MaxTok, pager.page_size)>>

(* C13: on a pager with page count n, allocate_page returns n, the new     *)
(* page reads as zero bytes, and afterwards the page count and the page    *)
(* count field of the header on page 0 are both n + 1 and page 0 is dirty. *)
C13_AllocatePage ==
    [][last'.op = "allocate" =>
          /\ last'.page_id = pager.num_pages
          /\ \A r \in {Pager_read_page(pager', last'.page_id)} :
                r.err = "ok" /\ r.data = <<empty_page(pager.page_size)>>
          /\ pager'.num_pages = pager.num_pages + 1
          /\ page_data(pager', 0).npages = pager.num_pages + 1
          /\ 0 \in pager'.dirty]_vars

(* the second allocation in a row, which returns the next id *)
C13_Witness ==
    /\ last.op = "allocate"
    /\ last.page_id = 2
    /\ pager.num_pages = 3
    /\ page_data(pager, 0).npages = 3
    /\ pager.dirty = {0, 1, 2}

(* C14: read_page(id) and write_page(id, bytes) raise when id is negative  *)
(* or id >= page count, and write_page raises when the length of the data  *)
(* is not the page size; the cache, the dirty set and the page count are   *)
(* then as before the call.                                                *)
C14_InvalidPageAccess ==
    [][(/\ last'.op \in {"read", "write"}
        /\ \/ last'.page_id < 0
           \/ last'.page_id >= pager.num_pages
           \/ last'.op = "write" /\ last'.data[1].size # pager.page_size) =>
          /\ status' # "ok"
          /\ pager'.cached = pager.cached
          /\ pager'.cache = pager.cache
          /\ pager'.dirty = pager.dirty
          /\ pager'.num_pages = pager.num_pages]_vars

(* a write_page of a valid page id with data one byte short has raised *)
C14_Witness ==
    /\ last.op = "write"
    /\ status = "ValueError"
    /\ last.page_id >= 1 /\ last.page_id < pager.num_pages
    /\ last.data[1].size = pager.page_size - 1
    /\ last.page_id \notin pager.dirty

Lookup(pg, key) ==
    The({[found |-> r.found, values |-> r.values] : r \in {search(pg, bt_root, key)}})

(* C16: delete(k) returns true exactly when k was inserted before and not  *)
(* deleted since; after it returns, search(k) finds nothing and search of  *)
(* every other key returns what it returned before the delete.             *)
C16_DeleteFrame ==
    ~Broken(pager) =>
        \A k \in Keys :
            \A r \in {delete(pager, bt_root, k)} :
                /\ r.deleted = (hist[k] # NoRow)
                /\ ~Lookup(r.pg, k).found
                /\ \A j \in Keys \ {k} : Lookup(r.pg, j) = Lookup(pager, j)

(***************************************************************************)
(* SpecStmt: one database handle on a fresh file, driven by CREATE TABLE,  *)
(* INSERT and SELECT c1, ..., cn on every table name, whether or not the   *)
(* table exists.                                                           *)
(***************************************************************************)
MaxStmtInserts == 2  \* INSERT statements of one behaviour of SpecStmt

ColumnLists == {<<"id">>, <<"v">>, <<"v", "id">>}

SelectColumnsStatement(t, columns) ==
    [SelectStatement(t, NoWhere) EXCEPT !.columns = columns]

StmtCreateTable(t) ==
    /\ Ready
    /\ \E r \in {execute_create_table(DB, CreateTableStatement(t))} :
          /\ FitsDB(r.db.pager)
          /\ DBBecomes(r.db)
          /\ status' = r.err
    /\ last' = CreateTableStatement(t)
    /\ UNCHANGED <<bt_root, hist, ops, db_open, expect, others>>

StmtInsert(t) ==
    /\ Ready
    /\ ops.calls < MaxStmtInserts
    /\ \E r \in {execute_insert(DB, InsertStatement(t, NullV))} :
          /\ FitsDB(r.db.pager)
          /\ DBBecomes(r.db)
          /\ status' = r.err
    /\ ops' = [ops EXCEPT !.calls = @ + 1]
    /\ last' = InsertStatement(t, NullV)
    /\ UNCHANGED <<bt_root, hist, db_open, expect, others>>

StmtSelect(t, columns) ==
    /\ Ready
    /\ \E r \in {execute_select(DB, SelectColumnsStatement(t, columns))} :
          /\ DBBecomes(r.db)
          /\ status' = r.err
    /\ last' = SelectColumnsStatement(t, columns)
    /\ UNCHANGED <<bt_root, hist, ops, db_open, expect, others>>

NextStmt ==
    \/ \E t \in Names : StmtCreateTable(t)
    \/ \E t \in Names : StmtInsert(t)
    \/ \E t \in Names : \E columns \in ColumnLists : StmtSelect(t, columns)

SpecStmt == InitDB /\ [][NextStmt]_vars

(* the Python value of a record field *)
column_value(v) ==
    IF v.ty = "null" THEN SNone
    ELSE IF v.ty = "int" THEN SInt(v.i)
    ELSE SStr(v.s)

(* the rows of SELECT * reduced to the columns named *)
Projected(t, rows, columns) ==
    [i \in 1..Len(rows) |->
        [c \in 1..Len(columns) |->
            column_value(rows[i][1].vals[ColumnIndex(Schema(t), columns[c]) + 1])]]

(* C17: SELECT c1, ..., cn FROM t (no WHERE, ORDER BY, LIMIT, OFFSET,      *)
(* DISTINCT) returns, for every row that SELECT * FROM t returns, a row    *)
(* holding exactly the values of the columns named, in the order           *)
(* requested, not the whole record.                                        *)
C17_SelectColumns ==
    (Ready /\ last.op = "select" /\ last.columns # <<>> /\ status = "ok") =>
        \A r \in {SelectStar(last.table)} :
            r.err = "ok" =>
                result_rows = Projected(last.table, r.db.result_rows, last.columns)

(* the rows of the catalog tree of the handle d *)
CatalogRows(d) == The({r.rows : r \in {scan(d.pager, d.catalog_root)}})

(* C19: CREATE TABLE of a name that exists, and SELECT or INSERT on a name *)
(* that does not, raise an error and leave the table names, the metadata   *)
(* map, the catalog tree and the page count of the pager unchanged.        *)
C19_StatementErrors ==
    [][(\/ last'.op = "create" /\ tables[last'.table] # 0
        \/ last'.op \in {"select", "insert"} /\ tables[last'.table] = 0) =>
          /\ status' # "ok"
          /\ tables' = tables
          /\ table_metadata' = table_metadata
          /\ catalog_root' = catalog_root
          /\ CatalogRows(DB') = CatalogRows(DB)
          /\ pager'.num_pages = pager.num_pages]_vars

(* CREATE TABLE of the first table has raised in a handle that holds both  *)
(* tables and a row                                                        *)
C19_Witness ==
    /\ last.op = "create" /\ last.table = 1
    /\ status = "ValueError"
    /\ \A t \in Names : tables[t] # 0
    /\ ops.calls > 0

(***************************************************************************)
(* SpecVM: one DatabaseMachine on a file that holds one B-tree, executing  *)
(* one program instruction by instruction.  The tree starts with the rows  *)
(* of a seed; the program is a chain of jumps, a scan loop, or the INSERT  *)
(* of one row through a cursor.                                            *)
(***************************************************************************)
MaxSeedKey == 4      \* the largest key of a seeded tree

(* the keys of the trees the machine starts on, in insertion order *)
SeedKeys == {<<>>, <<1>>, <<1, 2, MaxSeedKey>>}

(* BTree(pager) followed by insert(k, Record([text])) for the keys of a seed *)
RECURSIVE seed_rows(_, _)
seed_rows(t, keys) ==
    IF keys = <<>> THEN t
    ELSE seed_rows(insert(t.pg, t.root, Head(keys), <<TextV(Txt(1))>>), Tail(keys))
seed_tree(keys) ==
    The({seed_rows([pg |-> c.pg, root |-> c.page_id, err |-> "ok"], keys) :
            c \in {create_leaf_node(create_new)}})

(* the instructions that push one value *)
PushInstructions ==
    {Op1("INTEGER", 0), Op1("INTEGER", 1), Op0("NULL"),
     Instruction("STRING", 0, 0, EmptyText), Instruction("STRING", 0, 0, ShortText)}

JumpPrograms ==
    {<<push, Op1("JUMP_IF_FALSE", t1), Op1("JUMP", t2), Op0("HALT")>> :
        push \in PushInstructions, t1 \in 0..3, t2 \in 0..3}

ScanPrograms(root) ==
    {<<Op2("OPEN_READ", 0, root), Op2("REWIND", 0, t1), Op2("NEXT", 0, t2), Op0("HALT")>> :
        t1 \in 0..3, t2 \in 0..3}

InsertPrograms(root) ==
    {<<Op2(open, 0, root), Op1("INTEGER", key), Instruction("STRING", 0, 0, Txt(2)),
       Op1("MAKE_RECORD", 1), Op1("INSERT", 0), Op0("HALT")>> :
        open \in {"OPEN_READ", "OPEN_WRITE"}, key \in {MaxSeedKey - 1, MaxSeedKey + 1}}

DeletePrograms(root) ==
    {<<Op2(open, 0, root), Op2("REWIND", 0, 3), Op1("DELETE", 0), Op0("HALT")>> :
        open \in {"OPEN_READ", "OPEN_WRITE"}}

(* SEEK on a cursor that holds no data, and SEEK of the key inserted after *)
(* REWIND or an earlier SEEK loaded the data                               *)
SeekPrograms(root) ==
    {<<Op2("OPEN_READ", 0, root), Op2("SEEK", 0, key), Op1("KEY", 0), Op0("HALT")>> :
        key \in {1, MaxSeedKey - 1}}
    \cup {<<Op2("OPEN_WRITE", 0, root), load,
            Op1("INTEGER", key), Instruction("STRING", 0, 0, Txt(2)),
            Op1("MAKE_RECORD", 1), Op1("INSERT", 0),
            Op2("SEEK", 0, key), Op1("KEY", 0), Op0("HALT")>> :
              load \in {Op2("REWIND", 0, 2), Op2("SEEK", 0, 1)},
              key \in {MaxSeedKey - 1, MaxSeedKey + 1}}

(* the programs generate_select and generate_insert emit for the table 1   *)
(* whose root page is `root`                                               *)
Registry(root) == [n \in TableNames |-> IF n = 1 THEN root ELSE 0]
GeneratedWheres ==
    {BinaryOp(Identifier("id"), "=", Literal(1)),
     BinaryOp(Identifier("id"), "<", Literal(1)),
     BinaryOp(Identifier("id"), "<", LiteralNull)}
GeneratedSelects(root) ==
    {generate_select(Registry(root), optimize_select(SelectStatement(1, where))).program :
        where \in {NoWhere} \cup {<<w>> : w \in GeneratedWheres}}
GeneratedInserts(root) ==
    {generate_insert(Registry(root), <<>>, MaxSeedKey + 1,
                     InsertStatement(1, idv)).program : idv \in {NullV, IntV(1)}}
GeneratedPrograms(root) == GeneratedSelects(root) \cup GeneratedInserts(root)

Programs(keys, root) ==
    ScanPrograms(root) \cup InsertPrograms(root) \cup DeletePrograms(root)
    \cup SeekPrograms(root) \cup GeneratedPrograms(root)
    \cup (IF keys = <<>> THEN JumpPrograms ELSE {})

InitVM ==
    /\ \E keys \in SeedKeys :
          \E t \in {seed_tree(keys)} :
              /\ pager = t.pg
              /\ bt_root = t.root
              /\ \E program \in Programs(keys, t.root) :
                    vm = [program |-> program, m |-> reset(t.pg), prev |-> -1,
                          deleted |-> {}, visited |-> <<>>]
    /\ hist = [k \in Keys |-> NoRow]
    /\ status = "ok"
    /\ ops = [calls |-> 0, mods |-> 0, opens |-> 0]
    /\ InitDBUnused
    /\ rec = NoRec
    /\ written = [i \in PageIds |-> <<>>]
    /\ srv = NoSrv

(* the keys a DELETE instruction that did not raise was executed on *)
DeletedBy(m, instr, m2) ==
    IF instr.opcode = "DELETE" /\ m2.err = "ok"
    THEN {m.cursor.data[m.cursor.position + 1].key}
    ELSE {}

(* the key of the cell DATA reads *)
VisitedBy(m, instr) ==
    IF instr.opcode = "DATA" /\ m.cursor.valid
    THEN <<m.cursor.data[m.cursor.position + 1].key>>
    ELSE <<>>

(* the body of the loop of DatabaseMachine.execute; prev is the index of   *)
(* the instruction executed, deleted the keys DELETE was executed on,      *)
(* visited the keys of the cells DATA has read                             *)
VMStep ==
    /\ vm.m.err = "ok"
    /\ ~vm.m.halted
    /\ vm.m.pc < Len(vm.program)
    /\ \E m2 \in {execute_step(vm.m, vm.program)} :
          /\ vm' = [vm EXCEPT !.m = m2, !.prev = vm.m.pc,
                               !.deleted = @ \cup DeletedBy(vm.m, vm.program[vm.m.pc + 1], m2),
                               !.visited = @ \o VisitedBy(vm.m, vm.program[vm.m.pc + 1])]
          /\ pager' = m2.pg
          /\ status' = m2.err
    /\ UNCHANGED <<bt_root, hist, ops, dbvars, rec, written, srv>>

NextVM == VMStep

SpecVM == InitVM /\ [][NextVM]_vars

(* the loop of DatabaseMachine.execute runs on while it can *)
SpecVMLive == SpecVM /\ WF_vars(NextVM)

(* the instruction the machine executes next, and the tree behind cursor 0 *)
CurrentInstruction == vm.program[vm.m.pc + 1]
Running == vm.m.err = "ok" /\ ~vm.m.halted /\ vm.m.pc < Len(vm.program)
CursorRoot(m) == m.btrees[m.cursor.btree].root

(* the jump of an instruction fires on the machine m *)
JumpFires(m, instr) ==
    CASE instr.opcode = "JUMP" -> TRUE
      [] instr.opcode = "JUMP_IF_FALSE" -> m.stack # <<>> /\ py_not(Top(m.stack, 0))
      [] instr.opcode = "REWIND" -> scan(m.pg, CursorRoot(m)).rows = <<>>
      [] instr.opcode = "NEXT" ->
            m.cursor.valid /\ m.cursor.position + 1 < Len(m.cursor.data)
      [] OTHER -> FALSE
JumpTarget(instr) == IF instr.opcode \in {"JUMP", "JUMP_IF_FALSE"} THEN instr.p1 ELSE instr.p2

(* C18: whenever a jump fires (JUMP, JUMP_IF_FALSE on a falsy value,       *)
(* REWIND on an empty tree, NEXT that advanced to a next cell), the next   *)
(* instruction the machine executes is the one at index target, for every  *)
(* target in 0..len(program)-1; when it does not fire, the next            *)
(* instruction executed is the one at pc+1.                                *)
C18_JumpTargets ==
    [][(Running /\ vm'.prev = vm.m.pc /\ vm'.m.err = "ok" /\ ~vm'.m.halted) =>
          vm'.m.pc = IF JumpFires(vm.m, CurrentInstruction)
                     THEN JumpTarget(CurrentInstruction)
                     ELSE vm.m.pc + 1]_vars

(* a NEXT that advanced to the second row has jumped back to index 0 *)
C18_Witness ==
    /\ vm.prev = 2
    /\ vm.program[3].opcode = "NEXT"
    /\ vm.program[3].p2 = 0
    /\ vm.m.cursor.position = 1
    /\ vm.m.cursor.valid
    /\ vm.m.pc = 0

(* C20: the INSERT opcode through a cursor opened with OPEN_READ raises an *)
(* error and leaves the tree behind the cursor unchanged; through a cursor *)
(* opened with OPEN_WRITE it pops the record, then the key, and the tree   *)
(* then maps that key to that record.                                      *)
C20_InsertOpcode ==
    [][(Running /\ vm'.prev = vm.m.pc /\ CurrentInstruction.opcode = "INSERT"
          /\ Len(vm.m.stack) >= 2) =>
          IF ~vm.m.cursor.writable
          THEN /\ vm'.m.err = "RuntimeError"
               /\ CursorRoot(vm'.m) = CursorRoot(vm.m)
               /\ scan(vm'.m.pg, CursorRoot(vm'.m)).rows
                     = scan(vm.m.pg, CursorRoot(vm.m)).rows
          ELSE /\ vm'.m.err = "ok"
               /\ vm'.m.stack = Pop(vm.m.stack, 2)
               /\ \A r \in {search(vm'.m.pg, CursorRoot(vm'.m), Top(vm.m.stack, 1).i)} :
                     r.found /\ r.values = Top(vm.m.stack, 0).vals]_vars

(* C21: the DELETE opcode on a writable cursor that points at a valid cell *)
(* removes that cell from the cursor's tree: once the program has halted,  *)
(* neither a scan nor a search of the tree returns the cell's key.         *)
C21_DeleteOpcode ==
    vm.m.halted =>
        \A key \in vm.deleted :
            /\ ~search(vm.m.pg, CursorRoot(vm.m), key).found
            /\ \A r \in {scan(vm.m.pg, CursorRoot(vm.m)).rows} :
                  \A i \in 1..Len(r) : r[i].key # key

(***************************************************************************)
(* SpecVarint: one integer below 2^63 is packed between other bytes and    *)
(* unpacked at the offset where its bytes start.                           *)
(***************************************************************************)
MaxPrefix == 2       \* bytes in front of the packed integer

(* the groups of 21 bits the integers are made of; the largest integer is  *)
(* 2^63 - 1                                                                *)
LimbValues == {0, 1, 127, 128, 16384, WideLimb - 1}
WideValues == {<<l0, l1, l2>> : l0 \in LimbValues, l1 \in LimbValues, l2 \in LimbValues}
PrefixBytes == {[i \in 1..n |-> 255] : n \in 0..MaxPrefix}
SuffixBytes == {<<>>, <<255>>, <<1, 128>>}

InitVarint ==
    /\ \E w \in WideValues : \E prefix \in PrefixBytes : \E suffix \in SuffixBytes :
          rec = [NoRec EXCEPT !.stage = "new", !.values = w,
                              !.data = <<prefix, suffix>>]
    /\ InitBTUnused
    /\ InitDBUnused
    /\ written = [i \in PageIds |-> <<>>]
    /\ vm = NoVM
    /\ srv = NoSrv

VarintPack ==
    /\ rec.stage = "new"
    /\ rec' = [rec EXCEPT !.stage = "packed",
                          !.data = rec.data[1] \o pack_varint_wide(rec.values)
                                      \o rec.data[2],
                          !.decoded = <<Len(rec.data[1])>>]
    /\ UNCHANGED <<pager, bt_root, hist, status, ops, dbvars, written, vm, srv>>

VarintUnpack ==
    /\ rec.stage = "packed"
    /\ \E r \in {unpack_varint_wide(rec.data, rec.decoded[1])} :
          rec' = [rec EXCEPT !.stage = "unpacked", !.ok = r.ok,
                             !.decoded = <<rec.decoded[1], r.value, r.consumed>>]
    /\ UNCHANGED <<pager, bt_root, hist, status, ops, dbvars, written, vm, srv>>

NextVarint == VarintPack \/ VarintUnpack

SpecVarint == InitVarint /\ [][NextVarint]_vars

(* C22: for every integer n with 0 <= n < 2^63, unpack_varint of the bytes *)
(* of pack_varint(n) returns (n, len(pack_varint(n))), also when the bytes *)
(* are followed by other bytes and decoding starts at a non-zero offset.   *)
C22_VarintRoundTrip ==
    rec.stage = "unpacked" =>
        /\ rec.ok
        /\ rec.decoded[2] = rec.values
        /\ rec.decoded[3] = Len(pack_varint_wide(rec.values))

(* 2^63 - 1 was unpacked at offset 2 in front of other bytes *)
C22_Witness ==
    /\ rec.stage = "unpacked"
    /\ rec.values = <<WideLimb - 1, WideLimb - 1, WideLimb - 1>>
    /\ rec.decoded[1] = 2
    /\ rec.decoded[3] = 9
    /\ Len(rec.data) = 13

(***************************************************************************)
(* Properties of the nodes of the B-tree                                   *)
(***************************************************************************)
(* the child pages an internal node refers to: cell children, right pointer *)
ChildPages(node) ==
    {node.cells[i].child : i \in 1..num_keys(node)}
    \cup (IF node.right # 0 THEN {node.right} ELSE {})

(* the pages of the tree below and including page_id *)
RECURSIVE TreePages(_, _)
TreePages(pg, page_id) ==
    IF is_leaf(page_data(pg, page_id)) THEN {page_id}
    ELSE {page_id}
         \cup UNION {TreePages(pg, c) : c \in ChildPages(page_data(pg, page_id)) \ {page_id}}

(* the keys stored in the leaves of the subtree of page_id *)
SubtreeKeys(pg, page_id) ==
    UNION {{page_data(pg, p).cells[i].key : i \in 1..num_keys(page_data(pg, p))} :
              p \in {q \in TreePages(pg, page_id) : is_leaf(page_data(pg, q))}}

(* the ordering of the subtrees of one internal node *)
SubtreesOrdered(pg, node) ==
    /\ \A i \in 1..num_keys(node) :
          \A k \in SubtreeKeys(pg, node.cells[i].child) :
              /\ k < node.cells[i].key
              /\ i > 1 => k >= node.cells[i - 1].key
    /\ (node.right # 0 /\ num_keys(node) > 0) =>
          \A k \in SubtreeKeys(pg, node.right) : k >= node.cells[num_keys(node)].key

(* C23: in every state of a tree built by inserts, every internal node     *)
(* with cells (k_0,c_0)..(k_n-1,c_n-1) and right pointer c_R satisfies:    *)
(* every key in the subtree of c_i is less than k_i and not less than      *)
(* k_i-1, and every key in the subtree of c_R is at least k_n-1.           *)
C23_SubtreeOrder ==
    (~Broken(pager)) =>
        \A p \in TreePages(pager, bt_root) :
            \A node \in {page_data(pager, p)} :
                ~is_leaf(node) => SubtreesOrdered(pager, node)

(***************************************************************************)
(* SpecGrow: one B-tree that grows by inserts of the keys 1, 2, 3, ... in  *)
(* this order, each with one TEXT of TextLen bytes, until an internal node *)
(* holds MAX_NODE_KEYS cells and splits.                                   *)
(***************************************************************************)
MaxGrow == 204       \* inserts of one behaviour of SpecGrow

(* the page ids of the cache of this specification *)
GrowPageIds == 0..MaxGrow

InitGrow ==
    /\ \E c \in {create_leaf_node([create_new EXCEPT
                                      !.cache = [i \in GrowPageIds |-> ZeroPage]])} :
          /\ pager = c.pg
          /\ bt_root = c.page_id
    /\ hist = [k \in Keys |-> NoRow]
    /\ status = "ok"
    /\ ops = [calls |-> 0, mods |-> 0, opens |-> 0]
    /\ InitDBUnused
    /\ InitOthers

GrowInsert ==
    /\ ~Broken(pager)
    /\ ops.calls < MaxGrow
    /\ \E r \in {insert(pager, bt_root, ops.calls + 1, <<TextV(Txt(1))>>)} :
          /\ r.pg.num_pages <= MaxGrow
          /\ pager' = r.pg
          /\ bt_root' = r.root
          /\ status' = r.err
    /\ ops' = [ops EXCEPT !.calls = @ + 1]
    /\ UNCHANGED <<hist, dbvars, others>>

NextGrow == GrowInsert

SpecGrow == InitGrow /\ [][NextGrow]_vars

(* the pages that hold nodes: every page but the header page *)
NodePages(pg) == 1..(pg.num_pages - 1)

(* the references to page q in the internal nodes of the tree *)
References(pg, root, q) ==
    {<<p, i>> \in TreePages(pg, root) \X (0..MAX_NODE_KEYS) :
        /\ ~is_leaf(page_data(pg, p))
        /\ IF i = 0 THEN page_data(pg, p).right = q
           ELSE i <= num_keys(page_data(pg, p)) /\ page_data(pg, p).cells[i].child = q}

(* C24: no insert makes a node page unreachable: every child page an       *)
(* internal node referred to before it split, and the newly added child,   *)
(* is referred to afterwards by exactly one of the two nodes, and the      *)
(* right pointer of an internal node is a node page, never 0.              *)
C24_NoPageLost ==
    (~Broken(pager)) =>
        /\ \A q \in NodePages(pager) \ {bt_root} :
              Cardinality(References(pager, bt_root, q)) = 1
        /\ \A p \in TreePages(pager, bt_root) :
              ~is_leaf(page_data(pager, p)) =>
                  page_data(pager, p).right \in NodePages(pager)

(***************************************************************************)
(* Properties of a leaf split, under SpecBT                                *)
(***************************************************************************)
(* the leaf that insert(key, ...) descends to from page_id *)
RECURSIVE LeafFor(_, _, _)
LeafFor(pg, page_id, key) ==
    IF is_leaf(page_data(pg, page_id)) THEN page_id
    ELSE LeafFor(pg,
                 The({IF idx < num_keys(node) THEN node.cells[idx + 1].child ELSE node.right :
                         node \in {page_data(pg, page_id)},
                         idx \in {find_key_index(page_data(pg, page_id), key)}}),
                 key)

(* the cells of a node as (key, payload) pairs, and its keys in order *)
CellSet(node) == {<<node.cells[i].key, node.cells[i].data>> : i \in 1..num_keys(node)}
NodeKeys(node) == [i \in 1..num_keys(node) |-> node.cells[i].key]

(* insert(key, values) splits the leaf it descends to *)
LeafSplits(pg, root, key, values) ==
    \E node \in {page_data(pg, LeafFor(pg, root, key))} :
        /\ \A i \in 1..num_keys(node) : node.cells[i].key # key
        /\ needs_split(node, leaf_cell_size(key, encode(values)))

(* the keys promoted for page q: the key of the cell whose child is q, or  *)
(* the last key of the node whose right pointer is q                       *)
PromotedKeys(pg, root, q) ==
    {page_data(pg, r[1]).cells[IF r[2] = 0 THEN num_keys(page_data(pg, r[1])) ELSE r[2]].key :
        r \in References(pg, root, q)}

MaxSizeKey == 3      \* keys are drawn from 1..MaxSizeKey
MaxSizeOps == 4      \* modifying calls of one behaviour of SpecSizes
SmallLen == 10       \* byte lengths of the TEXT of a record
BigLen == 2100

SizedText(len) == [tok |-> 1, len |-> len, meta |-> NoMeta]
SizePayloads == {<<TextV(SizedText(len))>> : len \in {SmallLen, TextLen, BigLen}}

SizeInsert(k, values) ==
    /\ ~Broken(pager)
    /\ ops.calls < MaxSizeOps
    /\ \E r \in {insert(pager, bt_root, k, values)} :
          /\ Fits(r.pg)
          /\ pager' = r.pg
          /\ bt_root' = r.root
          /\ status' = r.err
          /\ hist' = IF r.err = "ok" THEN [hist EXCEPT ![k] = <<values>>] ELSE hist
    /\ ops' = [ops EXCEPT !.calls = @ + 1]
    /\ UNCHANGED <<dbvars, others>>

SizeDelete(k) ==
    /\ ~Broken(pager)
    /\ ops.calls < MaxSizeOps
    /\ \E r \in {delete(pager, bt_root, k)} : pager' = r.pg
    /\ hist' = [hist EXCEPT ![k] = NoRow]
    /\ status' = "ok"
    /\ ops' = [ops EXCEPT !.calls = @ + 1]
    /\ UNCHANGED <<bt_root, dbvars, others>>

NextSizes ==
    \/ \E k \in 1..MaxSizeKey, v \in SizePayloads : SizeInsert(k, v)
    \/ \E k \in 1..MaxSizeKey : SizeDelete(k)

SpecSizes == InitBT /\ [][NextSizes]_vars

(* C26: in every node of the tree, leaf and internal, after any sequence   *)
(* of inserts and deletes, the keys read through the cell-pointer array    *)
(* are strictly ascending, with no key repeated inside a node.             *)
C26_NodeKeysAscending ==
    (~Broken(pager)) =>
        \A p \in TreePages(pager, bt_root) :
            StrictlyAscending(NodeKeys(page_data(pager, p)))

(* the bytes a cell of a node takes *)
CellSize(node, c) ==
    IF is_leaf(node) THEN leaf_cell_size(c.key, c.data) ELSE internal_cell_size(c.key)

(* the layout of one node page of page_size bytes *)
LayoutKept(node, page_size) ==
    /\ node.size = page_size
    /\ num_keys(node) <= MAX_NODE_KEYS
    /\ \A i \in 1..num_keys(node) :
          /\ node.cells[i].off >= NODE_HEADER_SIZE + 2 * num_keys(node)
          /\ node.cells[i].off + CellSize(node, node.cells[i]) <= page_size
    /\ \A i \in 1..num_keys(node) : \A j \in 1..num_keys(node) :
          i # j => \/ node.cells[i].off + CellSize(node, node.cells[i]) <= node.cells[j].off
                   \/ node.cells[j].off + CellSize(node, node.cells[j]) <= node.cells[i].off

(* C27: after any sequence of inserts (new keys and re-inserts of existing *)
(* keys, with records of any size up to a bound below the page size) and   *)
(* deletes, every node page keeps its layout: key-count <= 100, the        *)
(* cell-pointer array ends at or before the lowest live cell offset, every *)
(* live cell lies inside the page, and no two live cells overlap.          *)
C27_PageLayout ==
    \A p \in NodePages(pager) \cap pager.cached :
        LayoutKept(pager.cache[p], pager.page_size)

(***************************************************************************)
(* Properties of the system catalog, under SpecCat                         *)
(***************************************************************************)
(* the entries of the catalog tree of the handle d: the table metadata     *)
(* that the JSON text of each row holds                                    *)
CatalogEntries(d) ==
    The({[i \in 1..Len(rows) |-> rows[i].values[1].s.meta[1]] :
            rows \in {CatalogRows(d)}})

EntriesOf(entries, name) == {i \in 1..Len(entries) : entries[i].name = name}

(* C28: after every execute call that returns, the catalog tree holds      *)
(* exactly one entry for each table of the metadata map, and no other      *)
(* entry, and the root page of the entry of a table is the root page the   *)
(* metadata map has for it.                                                *)
C28_CatalogMatchesMetadata ==
    (Ready /\ status = "ok" /\ last.op \in {"create", "insert"}) =>
        \A entries \in {CatalogEntries(DB)} :
            /\ Len(entries) = Len(table_metadata)
            /\ \A i \in 1..Len(table_metadata) :
                  /\ Cardinality(EntriesOf(entries, table_metadata[i].name)) = 1
                  /\ \A j \in EntriesOf(entries, table_metadata[i].name) :
                        entries[j].root_page = table_metadata[i].root_page

(* C29: the catalog tree the controller writes to is rooted at page 1 in   *)
(* every state of an open handle, so that the scan of page 1 visits every  *)
(* catalog entry.                                                          *)
C29_CatalogRootIsPageOne ==
    Ready =>
        /\ catalog_root = SYSTEM_CATALOG_PAGE
        /\ scan(pager, SYSTEM_CATALOG_PAGE).rows = CatalogRows(DB)

(***************************************************************************)
(* Properties of the automatically assigned keys, under SpecShort: no      *)
(* INSERT names a key                                                      *)
(***************************************************************************)
(* the keys the INSERT statements that returned have put into table t *)
KeysOf(e) == {k \in Keys : e.rows[k] # NoRow}

(* the key generate_insert assigns to INSERT INTO t VALUES (NULL, ..) *)
AssignedKey(t) ==
    The({g.key : g \in {generate_insert(tables, table_metadata, next_auto_key,
                                        InsertStatement(t, NullV))}})

(* C30: in a table where no INSERT named a key, every INSERT that returns  *)
(* has been given a key that no row of the table has, so that it adds a    *)
(* row and replaces none; also after close and reopen, and also for a      *)
(* table without PRIMARY KEY column.                                       *)
C30_AutoKeysAreNew ==
    [][(last'.op = "insert" /\ status' = "ok" /\ ops'.calls = ops.calls + 1) =>
          \A t \in {last'.table} :
              /\ AssignedKey(t) \notin KeysOf(expect[t])
              /\ Cardinality(KeysOf(expect'[t])) = Cardinality(KeysOf(expect[t])) + 1]_vars

(***************************************************************************)
(* Properties of the list execute returns, under SpecDB                    *)
(***************************************************************************)
(* YesDB.execute returns the value of DatabaseMachine.execute, which is    *)
(* the list DatabaseMachine.result_rows itself and no copy: the rows a     *)
(* caller finds in the list of a SELECT are, at any later time, the rows   *)
(* of result_rows.                                                         *)
HeldRows == result_rows

ExecuteOps == {"create", "insert", "select", "update", "delete"}

(* C31: the list of rows a SELECT returned holds the same rows after the   *)
(* next execute call on the same handle has run.                           *)
C31_ReturnedRowsKept ==
    [][(Ready /\ last.op = "select" /\ status = "ok" /\ last'.op \in ExecuteOps) =>
          HeldRows' = HeldRows]_vars

(***************************************************************************)
(* Properties of the page cache                                            *)
(***************************************************************************)
(* the cached page i has the bytes the file has at its offset *)
OnDisk(pg, i) == i < Len(pg.file) /\ pg.file[i + 1] = pg.cache[i]

DirtyTracked(pg) ==
    /\ pg.dirty \subseteq pg.cached
    /\ \A i \in pg.cached : ~OnDisk(pg, i) => i \in pg.dirty

FlushCompletes(pg) ==
    \A f \in {flush(pg)} :
        /\ f.dirty = {}
        /\ \A i \in f.cached : OnDisk(f, i)

(* C32: the dirty set is a subset of the cached page ids, every cached     *)
(* page whose bytes differ from the bytes at its file offset is dirty, and *)
(* flush leaves the dirty set empty and the file equal to the cache on     *)
(* every cached page.                                                      *)
C32_DirtyPages == DirtyTracked(pager) /\ FlushCompletes(pager)

(***************************************************************************)
(* Properties of SEEK, under SpecVM                                        *)
(***************************************************************************)
(* key is a key of the tree behind the cursor of the machine m *)
InTree(m, key) ==
    \A r \in {scan(m.pg, CursorRoot(m)).rows} : \E i \in 1..Len(r) : r[i].key = key

(* C33: after SEEK cursor, k the cursor is valid exactly when k is a key   *)
(* of the cursor's tree at that moment, and then KEY pushes k; also when k *)
(* was inserted after the cursor loaded its data.                          *)
C33_SeekFindsKey ==
    [][(Running /\ CurrentInstruction.opcode = "SEEK") =>
          \A k \in {CurrentInstruction.p2} :
              /\ vm'.m.cursor.valid <=> InTree(vm.m, k)
              /\ vm'.m.cursor.valid => Top(op_key(vm'.m).stack, 0) = SInt(k)]_vars

(***************************************************************************)
(* Properties of the generated programs, under SpecVMLive                  *)
(***************************************************************************)
Generated == vm.program \in GeneratedPrograms(bt_root)

(* the machine has executed HALT with no cursor open, and the loop of a    *)
(* SELECT program has read every cell of the tree once                     *)
HaltedClosed ==
    /\ vm.m.halted
    /\ vm.m.err = "ok"
    /\ ~vm.m.cursor.open
    /\ vm.program \in GeneratedSelects(bt_root) =>
          vm.visited = RowKeys(scan(vm.m.pg, vm.m.btrees[1].root).rows)

(* C34: every program the code generator emits for a SELECT or an INSERT   *)
(* reaches HALT with the halted flag set, after the REWIND/NEXT loop has   *)
(* visited each cell of the tree exactly once and the cursor was closed.   *)
C34_GeneratedProgramsHalt == Generated ~> HaltedClosed

(***************************************************************************)
(* SpecWhere: _evaluate_where on one row of the table 1 and one WHERE      *)
(* expression.                                                             *)
(***************************************************************************)
MaxWhereKey == 3     \* the ids of the rows and of the literals are 1..MaxWhereKey

ColumnLiteralWheres ==
    {BinaryOp(Identifier("id"), operator, Literal(k)) :
        operator \in CompareOperators, k \in 1..MaxWhereKey}

OtherWheres ==
    {BinaryOp(BinaryOp(Identifier("id"), "=", Literal(1)), operator,
              BinaryOp(Identifier("id"), "=", Literal(2))) : operator \in {"AND", "OR"}}
    \cup {BinaryOp(Literal(1), operator, Identifier("id")) : operator \in {"=", "<"}}
    \cup {BinaryOp(Identifier("id"), operator, Identifier(name)) :
             operator \in {"=", "<"}, name \in {"id", "v"}}
    \cup {BinaryOp(Identifier("w"), operator, Literal(1)) : operator \in {"=", "!="}}

WhereRows == {<<IntV(k), TextV(Txt(1))>> : k \in 1..MaxWhereKey}

WhereTable == TableMetadata(1, 2, Schema(1), <<"id">>, 1)

InitWhere ==
    /\ \E values \in WhereRows : \E where \in ColumnLiteralWheres \cup OtherWheres :
          rec = [NoRec EXCEPT !.stage = "new", !.values = values, !.data = <<where>>]
    /\ InitBTUnused
    /\ InitDBUnused
    /\ written = [i \in PageIds |-> <<>>]
    /\ vm = NoVM
    /\ srv = NoSrv

(* decoded is the result of _evaluate_where *)
WhereEvaluate ==
    /\ rec.stage = "new"
    /\ \E r \in {evaluate_where(rec.values, rec.data[1], WhereTable)} :
          rec' = [rec EXCEPT !.stage = "evaluated", !.ok = (r.err = "ok"),
                             !.decoded = <<r.value>>]
    /\ UNCHANGED <<pager, bt_root, hist, status, ops, dbvars, written, vm, srv>>

NextWhere == WhereEvaluate

SpecWhere == InitWhere /\ [][NextWhere]_vars

(* C35: a WHERE of the form column OP literal is evaluated on the named    *)
(* column of the row, and a WHERE of any other shape (AND/OR, literal on   *)
(* the left, column compared with column, unknown column) is TRUE.         *)
C35_WhereEvaluation ==
    rec.stage = "evaluated" =>
        \A where \in {rec.data[1]} :
            /\ rec.ok
            /\ where \in ColumnLiteralWheres =>
                  rec.decoded[1] = py_compare(where.operator, rec.values[1].i,
                                              where.right.v)
            /\ where \in OtherWheres => rec.decoded[1] = TRUE

(***************************************************************************)
(* Properties of the tables of one file, under SpecIso                     *)
(***************************************************************************)
(* the root pages of the catalog tree and of the tables of the metadata map *)
RootPages ==
    <<catalog_root>> \o [i \in 1..Len(table_metadata) |-> table_metadata[i].root_page]

DistinctRoots ==
    \A i, j \in 1..Len(RootPages) : i # j => RootPages[i] # RootPages[j]

(* the statement that ran has left SELECT * FROM b as it was, for every    *)
(* table b other than its own                                              *)
OthersUntouched ==
    \A b \in TableNames \ {last'.table} :
        tables[b] # 0 =>
            \A before \in {SelectStar(b)} : \A after \in {SelectStarOn(DB', b)} :
                /\ after.err = before.err
                /\ after.db.result_rows = before.db.result_rows

SeesTable(f, t) ==
    \A d \in {open_db(f)} :
        /\ d.tables[t] # 0
        /\ \E i \in 1..Len(d.table_metadata) :
              /\ d.table_metadata[i].name = t
              /\ d.table_metadata[i].columns = Schema(t)

(* C37: after CREATE TABLE returns the pager has no dirty page, and a      *)
(* second handle opened on the file, without a close of the first, has the *)
(* table among its table names with its columns.                           *)
C37_CreateTableOnDisk ==
    [][(last'.op = "create" /\ status' = "ok" /\ tables[last'.table] = 0) =>
          /\ pager'.dirty = {}
          /\ SeesTable(pager'.file, last'.table)]_vars


(***************************************************************************)
(* server/main.py : execute_sql and get_user_db.  execute_sql is declared  *)
(* with `def`, so every request runs in a worker thread and the threads    *)
(* of two requests may switch between any two lines; no lock is taken      *)
(* anywhere in the file.  Each action below is one line of one request.    *)
(***************************************************************************)
Request(r) == srv.req[r]

SetRequest(r, q) == [srv EXCEPT !.req[r] = q]

(* a client posts /api/v1/databases/{db_name}/execute *)
execute_sql_called(r, pool_key) ==
    /\ Request(r).pc = "idle"
    /\ srv' = SetRequest(r, [NoRequest EXCEPT !.pc = "lookup",
                                              !.pool_key = pool_key])
    /\ UNCHANGED <<pager, bt_root, hist, status, ops, dbvars, rec, written, vm>>

(* get_user_db: `if pool_key not in _db_pool` *)
get_user_db_lookup(r) ==
    /\ Request(r).pc = "lookup"
    /\ srv' = SetRequest(r, [Request(r) EXCEPT
                  !.pc = IF srv.db_pool[Request(r).pool_key] = 0
                         THEN "exists" ELSE "return"])
    /\ UNCHANGED <<pager, bt_root, hist, status, ops, dbvars, rec, written, vm>>

(* get_user_db: `if not os.path.exists(db_path): raise HTTPException(404)` *)
get_user_db_exists(r) ==
    /\ Request(r).pc = "exists"
    /\ srv' = SetRequest(r, IF db_path(Request(r).pool_key) \in srv.files
                            THEN [Request(r) EXCEPT !.pc = "open"]
                            ELSE NoRequest)
    /\ UNCHANGED <<pager, bt_root, hist, status, ops, dbvars, rec, written, vm>>

(* get_user_db: the right-hand side of `_db_pool[pool_key] = YesDB(db_path)` *)
get_user_db_open(r) ==
    /\ Request(r).pc = "open"
    /\ srv' = [srv EXCEPT
                  !.handles = Append(@, [path |-> db_path(Request(r).pool_key)]),
                  !.req[r] = [@ EXCEPT !.pc = "store",
                                       !.db = Len(srv.handles) + 1]]
    /\ UNCHANGED <<pager, bt_root, hist, status, ops, dbvars, rec, written, vm>>

(* get_user_db: the assignment of `_db_pool[pool_key] = YesDB(db_path)` *)
get_user_db_store(r) ==
    /\ Request(r).pc = "store"
    /\ srv' = [srv EXCEPT
                  !.db_pool[Request(r).pool_key] = Request(r).db,
                  !.req[r] = [@ EXCEPT !.pc = "return", !.db = 0]]
    /\ UNCHANGED <<pager, bt_root, hist, status, ops, dbvars, rec, written, vm>>

(* get_user_db: `return _db_pool[pool_key]`, bound to db in execute_sql *)
get_user_db_return(r) ==
    /\ Request(r).pc = "return"
    /\ srv' = SetRequest(r, [Request(r) EXCEPT
                  !.pc = "execute", !.db = srv.db_pool[Request(r).pool_key]])
    /\ UNCHANGED <<pager, bt_root, hist, status, ops, dbvars, rec, written, vm>>

(* execute_sql: capture_logs(_execute) enters db.execute(req.sql) *)
execute_sql_enter(r) ==
    /\ Request(r).pc = "execute"
    /\ srv' = SetRequest(r, [Request(r) EXCEPT !.pc = "in_execute"])
    /\ UNCHANGED <<pager, bt_root, hist, status, ops, dbvars, rec, written, vm>>

(* execute_sql: db.execute returned or raised, and the response is sent *)
execute_sql_respond(r) ==
    /\ Request(r).pc = "in_execute"
    /\ srv' = SetRequest(r, NoRequest)
    /\ UNCHANGED <<pager, bt_root, hist, status, ops, dbvars, rec, written, vm>>

(* the server has just started: the pool is empty, and some of the        *)
(* databases were created by earlier runs                                  *)
InitServer ==
    /\ \E keys \in SUBSET PoolKeys :
          srv = [NoSrv EXCEPT !.files = {db_path(k) : k \in keys}]
    /\ InitBTUnused
    /\ InitDBUnused
    /\ rec = NoRec
    /\ written = [i \in PageIds |-> <<>>]
    /\ vm = NoVM

NextServer ==
    \/ \E r \in Requests : \E pool_key \in PoolKeys : execute_sql_called(r, pool_key)
    \/ \E r \in Requests : get_user_db_lookup(r)
    \/ \E r \in Requests : get_user_db_exists(r)
    \/ \E r \in Requests : get_user_db_open(r)
    \/ \E r \in Requests : get_user_db_store(r)
    \/ \E r \in Requests : get_user_db_return(r)
    \/ \E r \in Requests : execute_sql_enter(r)
    \/ \E r \in Requests : execute_sql_respond(r)

SpecServer == InitServer /\ [][NextServer]_vars

(* the requests that are inside execute of handle h *)
InFlight(h) == {r \in Requests : Request(r).pc = "in_execute" /\ Request(r).db = h}

(* the pool keys whose pooled handle is opened on the file at path *)
PooledOn(path) ==
    {k \in PoolKeys : srv.db_pool[k] # 0 /\ srv.handles[srv.db_pool[k]].path = path}

(* C38: at most one statement is in flight on a handle, however the        *)
(* requests for one (user, database) arrive, and no two entries of the     *)
(* pool are handles opened on the same database file.                      *)
C38_OneStatementInFlight ==
    /\ \A h \in 1..Len(srv.handles) : Cardinality(InFlight(h)) <= 1
    /\ \A k \in PoolKeys : Cardinality(PooledOn(db_path(k))) <= 1

====
